---- MODULE Spec2Model ----
(***************************************************************************)
(* PCSS race calendar: the single-page calendar front end.                 *)
(*                                                                         *)
(* State machine of App / Filters / CalendarMonth / CalendarList.  The     *)
(* page boots with URL parameters, fetches the race database, and then     *)
(* reacts to clicks: filter chips, clear-filters, month navigation, and    *)
(* the month/list view switch.  Every handler ends in App.render, which    *)
(* is part of the action that models the handler.  RacerSearch, which no   *)
(* version of App calls, is modelled with its handlers on a page that has  *)
(* run RacerSearch.init with App.render as the onChange callback.          *)
(* EventModal and CalendarExport are modelled by the dates they write into *)
(* the Google Calendar link and the .ics file of the event that is open.   *)
(*                                                                         *)
(* JavaScript strings that the code compares with < and > (the ISO date    *)
(* keys) are sequences of character codes, compared lexicographically as   *)
(* JavaScript compares strings.  Other strings are only tested for         *)
(* equality and are TLA+ strings.                                          *)
(***************************************************************************)
EXTENDS Integers, Sequences, FiniteSets, TLC

VARIABLES
    phase,        \* position of App.init: "loading" | "failed" | "ready"
    urlParams,    \* URLParams.parse() of window.location.search
    today,        \* DateUtils.today(), as [year, month (0-based), day]
    allEvents,    \* App._allEvents
    currentView,  \* App._currentView
    fState,       \* Filters._state
    cmYear,       \* CalendarMonth._year
    cmMonth,      \* CalendarMonth._month
    page,         \* visibility of #loading-state and #app-content
    dom,          \* what the last App.render wrote into the document
    dataFetches,  \* fetches of data/race_database.json issued so far
    location,     \* the query parameters of window.location
    historyLen,   \* window.history.length
    racer,        \* RacerSearch: _data and _selectedRacer (<< >> is null), _loaded,
                  \* _loading, the value of the input, the dropdown and its items
    fetches,      \* fetches of data/racer_database.json in flight: their callbacks
    modal         \* EventModal: whether #event-modal is hidden, _currentEvent, the
                  \* Google Calendar link of the body, the last .ics file downloaded

\* what App, Filters and CalendarMonth never write
netVars == <<dataFetches, location, historyLen, racer, fetches, modal>>

vars == <<phase, urlParams, today, allEvents, currentView, fState, cmYear, cmMonth,
          page, dom, dataFetches, location, historyLen, racer, fetches, modal>>

(***************************************************************************)
(* Bounds of the model.                                                    *)
(***************************************************************************)
\* longest event array of a race database of the layout specification
MaxEvents == 3
\* longest event array of a race database of the application specification
MaxAppEvents == 2
\* how many months prev/next may move away from the month of `today`
NavRadius == 1
\* longest event array of a race database of the grid specification
MaxGridEvents == 1
\* most fetches of the racer database the model lets be in flight at once
MaxInFlight == 2
\* longest event array of a race database of the export specification
MaxExportEvents == 1

(***************************************************************************)
(* Generic helpers.                                                        *)
(***************************************************************************)
Min(S) == CHOOSE x \in S : \A y \in S : x <= y

Range(s) == { s[i] : i \in DOMAIN s }

(***************************************************************************)
(* JavaScript strings as sequences of character codes.                     *)
(***************************************************************************)
CharZero == 48
CharDash == 45

\* String(n) for an integer n >= 0
RECURSIVE NumToString(_)
NumToString(n) ==
    IF n < 10 THEN << CharZero + n >>
    ELSE NumToString(n \div 10) \o << CharZero + (n % 10) >>

\* String.prototype.padStart(2, '0')
PadStart2(s) == IF Len(s) >= 2 THEN s ELSE << CharZero >> \o s

\* a < b on JavaScript strings that agree before position i
RECURSIVE StrLessFrom(_, _, _)
StrLessFrom(a, b, i) ==
    IF i > Len(b) THEN FALSE
    ELSE IF i > Len(a) THEN TRUE
    ELSE IF a[i] # b[i] THEN a[i] < b[i]
    ELSE StrLessFrom(a, b, i + 1)

\* a < b on JavaScript strings: lexicographic on code units
StrLess(a, b) == StrLessFrom(a, b, 1)

StrGreater(a, b) == StrLess(b, a)
StrLessEq(a, b) == ~StrLess(b, a)
StrGreaterEq(a, b) == ~StrLess(a, b)

(***************************************************************************)
(* DateUtils (the Date object is the proleptic Gregorian calendar).        *)
(***************************************************************************)
IsLeapYear(y) == (y % 4 = 0 /\ y % 100 # 0) \/ y % 400 = 0

\* DateUtils.daysInMonth(year, month): new Date(year, month + 1, 0).getDate()
daysInMonth(year, month) ==
    IF month = 1 THEN (IF IsLeapYear(year) THEN 29 ELSE 28)
    ELSE IF month \in {3, 5, 8, 10} THEN 30 ELSE 31

\* days of `year` before its month `month` (0-based)
RECURSIVE DaysBeforeMonth(_, _)
DaysBeforeMonth(year, month) ==
    IF month = 0 THEN 0
    ELSE DaysBeforeMonth(year, month - 1) + daysInMonth(year, month - 1)

\* days from 0001-01-01 up to the end of year - 1
DaysBeforeYear(year) ==
    LET y == year - 1
    IN  365 * y + (y \div 4) - (y \div 100) + (y \div 400)

\* ordinal of a date: 0001-01-01 is day 1
DayNumber(year, month, day) ==
    DaysBeforeYear(year) + DaysBeforeMonth(year, month) + day

\* Date.prototype.getDay(): 0 = Sunday.  0001-01-01 is a Monday.
GetDay(year, month, day) == DayNumber(year, month, day) % 7

\* DateUtils.firstDayOfWeek(year, month): new Date(year, month, 1).getDay()
firstDayOfWeek(year, month) == GetDay(year, month, 1)

\* Number(s) for a string of decimal digits
RECURSIVE StringToNum(_)
StringToNum(s) ==
    IF s = << >> THEN 0
    ELSE 10 * StringToNum(SubSeq(s, 1, Len(s) - 1)) + (s[Len(s)] - CharZero)

\* String.prototype.split('-')
RECURSIVE SplitDash(_, _)
SplitDash(s, part) ==
    IF s = << >> THEN << part >>
    ELSE IF Head(s) = CharDash THEN << part >> \o SplitDash(Tail(s), << >>)
    ELSE SplitDash(Tail(s), Append(part, Head(s)))

\* DateUtils.parseISO(str): the Date as [year, month (0-based), day]
parseISO(str) ==
    LET parts == SplitDash(str, << >>)
    IN  [ year |-> StringToNum(parts[1]), month |-> StringToNum(parts[2]) - 1,
          day |-> StringToNum(parts[3]) ]

(***************************************************************************)
(* CalendarMonth: the day grid.                                            *)
(***************************************************************************)
\* CalendarMonth._dateKey(y, m, d): "YYYY-MM-DD" with a 0-based month m
dateKey(y, m, d) ==
    NumToString(y) \o << CharDash >> \o PadStart2(NumToString(m + 1))
                   \o << CharDash >> \o PadStart2(NumToString(d))

\* _buildDayGrid whose row count is totalCells / 7 rounded down, plus one
buildDayGridExtraRow(year, month) ==
    LET dim       == daysInMonth(year, month)
        firstDay  == firstDayOfWeek(year, month)
        prevMonth == IF month = 0 THEN 11 ELSE month - 1
        prevYear  == IF month = 0 THEN year - 1 ELSE year
        prevDays  == daysInMonth(prevYear, prevMonth)
        totalCells == firstDay + dim
        rows      == (totalCells \div 7) + 1
        remaining == rows * 7 - totalCells
        nextMonth == IF month = 11 THEN 0 ELSE month + 1
        nextYear  == IF month = 11 THEN year + 1 ELSE year
    IN  [ k \in 1..firstDay |->
            [year |-> prevYear, month |-> prevMonth,
             day |-> prevDays - (firstDay - k), outside |-> TRUE] ]
        \o
        [ d \in 1..dim |->
            [year |-> year, month |-> month, day |-> d, outside |-> FALSE] ]
        \o
        [ d \in 1..remaining |->
            [year |-> nextYear, month |-> nextMonth, day |-> d, outside |-> TRUE] ]

\* _buildDayGrid that keeps the year for the fill days of December and January
buildDayGridSameYear(year, month) ==
    LET dim       == daysInMonth(year, month)
        firstDay  == firstDayOfWeek(year, month)
        prevMonth == IF month = 0 THEN 11 ELSE month - 1
        prevDays  == daysInMonth(year, prevMonth)
        totalCells == firstDay + dim
        rows      == (totalCells + 6) \div 7
        remaining == rows * 7 - totalCells
        nextMonth == IF month = 11 THEN 0 ELSE month + 1
    IN  [ k \in 1..firstDay |->
            [year |-> year, month |-> prevMonth,
             day |-> prevDays - (firstDay - k), outside |-> TRUE] ]
        \o
        [ d \in 1..dim |->
            [year |-> year, month |-> month, day |-> d, outside |-> FALSE] ]
        \o
        [ d \in 1..remaining |->
            [year |-> year, month |-> nextMonth, day |-> d, outside |-> TRUE] ]

\* CalendarMonth._buildDayGrid() for this._year = year, this._month = month
buildDayGrid(year, month) ==
    LET dim       == daysInMonth(year, month)
        firstDay  == firstDayOfWeek(year, month)
        prevMonth == IF month = 0 THEN 11 ELSE month - 1
        prevYear  == IF month = 0 THEN year - 1 ELSE year
        prevDays  == daysInMonth(prevYear, prevMonth)
        totalCells == firstDay + dim
        rows      == (totalCells + 6) \div 7
        remaining == rows * 7 - totalCells
        nextMonth == IF month = 11 THEN 0 ELSE month + 1
        nextYear  == IF month = 11 THEN year + 1 ELSE year
    IN  [ k \in 1..firstDay |->
            [year |-> prevYear, month |-> prevMonth,
             day |-> prevDays - (firstDay - k), outside |-> TRUE] ]
        \o
        [ d \in 1..dim |->
            [year |-> year, month |-> month, day |-> d, outside |-> FALSE] ]
        \o
        [ d \in 1..remaining |->
            [year |-> nextYear, month |-> nextMonth, day |-> d, outside |-> TRUE] ]

\* CalendarMonth.render: days.slice(i, i + 7) for i = 0, 7, 14, ...
groupWeeks(days) ==
    [ w \in 1..((Len(days) + 6) \div 7) |->
        SubSeq(days, 7 * (w - 1) + 1,
               IF 7 * w <= Len(days) THEN 7 * w ELSE Len(days)) ]

(***************************************************************************)
(* CalendarMonth._buildWeekRow: segments and lanes of one week row.        *)
(***************************************************************************)
\* the date key of each of the 7 days of a week row, as a tuple
weekKeys(week) ==
    << >> \o [ c \in 1..Len(week) |-> dateKey(week[c].year, week[c].month, week[c].day) ]

\* overlapsWeek with the bounds of the week excluded (>= and <= in the early return)
overlapsWeekStrict(e, weekStartKey, weekEndKey) ==
    ~(StrGreaterEq(e.dates.start, weekEndKey) \/ StrLessEq(e.dates.end, weekStartKey))

\* overlapsWeek that tests the start of the event on both sides
overlapsWeekStartOnly(e, weekStartKey, weekEndKey) ==
    ~(StrGreater(e.dates.start, weekEndKey) \/ StrLess(e.dates.start, weekStartKey))

\* the overlap test of the events.forEach callback (its early return negated)
overlapsWeek(e, weekStartKey, weekEndKey) ==
    ~(StrGreater(e.dates.start, weekEndKey) \/ StrLess(e.dates.end, weekStartKey))

\* findCol without the exclusive-end offset: c + 1 for both columns
findColInclusive(keys, key, offset, dflt) ==
    LET hits == { c \in 0..6 : keys[c + 1] = key }
    IN  IF hits = {} THEN dflt ELSE Min(hits) + 1

\* the column search loops: first c in 0..6 whose key equals `key`, else `dflt`
findCol(keys, key, offset, dflt) ==
    LET hits == { c \in 0..6 : keys[c + 1] = key }
    IN  IF hits = {} THEN dflt ELSE Min(hits) + offset

\* makeSegment with > and < in place of >= and <= in the two week tests
makeSegmentStrict(e, keys) ==
    LET startInWeek == StrGreater(e.dates.start, keys[1])
        endInWeek   == StrLess(e.dates.end, keys[7])
    IN  [ event     |-> e,
          startCol  |-> IF startInWeek THEN findCol(keys, e.dates.start, 1, 1) ELSE 1,
          endCol    |-> IF endInWeek THEN findCol(keys, e.dates.end, 2, 8) ELSE 8,
          contLeft  |-> ~startInWeek,
          contRight |-> ~endInWeek ]

\* the segment pushed for one overlapping event
makeSegment(e, keys) ==
    LET eStartKey    == e.dates.start
        eEndKey      == e.dates.end
        weekStartKey == keys[1]
        weekEndKey   == keys[7]
        startInWeek  == StrGreaterEq(eStartKey, weekStartKey)
        endInWeek    == StrLessEq(eEndKey, weekEndKey)
    IN  [ event     |-> e,
          startCol  |-> IF startInWeek THEN findCol(keys, eStartKey, 1, 1) ELSE 1,
          endCol    |-> IF endInWeek THEN findCol(keys, eEndKey, 2, 8) ELSE 8,
          contLeft  |-> ~startInWeek,
          contRight |-> ~endInWeek ]

\* events.forEach(...): one segment per overlapping event, in array order
RECURSIVE collectSegments(_, _)
collectSegments(events, keys) ==
    IF events = << >> THEN << >>
    ELSE LET e    == Head(events)
             rest == collectSegments(Tail(events), keys)
         IN  IF overlapsWeek(e, keys[1], keys[7])
             THEN << makeSegment(e, keys) >> \o rest
             ELSE rest

\* the comparator of segments.sort: negative when a goes first
compareSegments(a, b) ==
    IF a.startCol # b.startCol THEN a.startCol - b.startCol
    ELSE (b.endCol - b.startCol) - (a.endCol - a.startCol)

\* insert x behind every element that does not sort after it
RECURSIVE insertSegment(_, _)
insertSegment(sorted, x) ==
    IF sorted = << >> THEN << x >>
    ELSE IF compareSegments(x, Head(sorted)) < 0 THEN << x >> \o sorted
    ELSE << Head(sorted) >> \o insertSegment(Tail(sorted), x)

\* Array.prototype.sort with compareSegments (a stable sort)
RECURSIVE sortSegments(_)
sortSegments(segs) ==
    IF segs = << >> THEN << >>
    ELSE insertSegment(sortSegments(SubSeq(segs, 1, Len(segs) - 1)), segs[Len(segs)])

\* laneConflict that takes the end column of the other segment as inclusive
laneConflictInclusiveEnd(seg, other) ==
    ~(seg.endCol <= other.startCol \/ seg.startCol >= other.endCol - 1)

\* the conflict test of the lane scan
laneConflict(seg, other) ==
    ~(seg.endCol <= other.startCol \/ seg.startCol >= other.endCol)

\* pickLane that never reuses a lane
pickLaneNewLane(seg, lanes) == Len(lanes)

\* pickLane that takes the last lane without conflict instead of the first
pickLaneLast(seg, lanes) ==
    LET free == { i \in 1..Len(lanes) :
                    ~\E k \in 1..Len(lanes[i]) : laneConflict(seg, lanes[i][k]) }
    IN  IF free = {} THEN Len(lanes) ELSE (CHOOSE i \in free : \A j \in free : j <= i) - 1

\* 0-based index of the lane a segment goes to, given the lanes so far
pickLane(seg, lanes) ==
    LET free == { i \in 1..Len(lanes) :
                    ~\E k \in 1..Len(lanes[i]) : laneConflict(seg, lanes[i][k]) }
    IN  IF free = {} THEN Len(lanes) ELSE Min(free) - 1

\* allocateLanes that numbers the lanes from 1 in seg.lane
RECURSIVE allocateLanesOneBased(_, _, _)
allocateLanesOneBased(rest, lanes, done) ==
    IF rest = << >> THEN [ segments |-> done, laneCount |-> Len(lanes) ]
    ELSE LET seg     == Head(rest)
             laneIdx == pickLane(seg, lanes)
             lanes2  == IF laneIdx = Len(lanes)
                        THEN Append(lanes, << seg >>)
                        ELSE [ lanes EXCEPT ![laneIdx + 1] = Append(@, seg) ]
             placed  == [ event |-> seg.event, startCol |-> seg.startCol,
                          endCol |-> seg.endCol, contLeft |-> seg.contLeft,
                          contRight |-> seg.contRight, lane |-> laneIdx + 1 ]
         IN  allocateLanesOneBased(Tail(rest), lanes2, Append(done, placed))

\* segments.forEach(...) of the lane allocation: [segments with lane, lane count]
RECURSIVE allocateLanes(_, _, _)
allocateLanes(rest, lanes, done) ==
    IF rest = << >> THEN [ segments |-> done, laneCount |-> Len(lanes) ]
    ELSE LET seg     == Head(rest)
             laneIdx == pickLane(seg, lanes)
             lanes2  == IF laneIdx = Len(lanes)
                        THEN Append(lanes, << seg >>)
                        ELSE [ lanes EXCEPT ![laneIdx + 1] = Append(@, seg) ]
             placed  == [ event |-> seg.event, startCol |-> seg.startCol,
                          endCol |-> seg.endCol, contLeft |-> seg.contLeft,
                          contRight |-> seg.contRight, lane |-> laneIdx ]
         IN  allocateLanes(Tail(rest), lanes2, Append(done, placed))

\* CalendarMonth._buildWeekRow(week, events, today): the banners of the row
buildWeekRow(week, events) ==
    LET keys == weekKeys(week)
        laid == allocateLanes(sortSegments(collectSegments(events, keys)), << >>, << >>)
    IN  [ weekStartKey |-> keys[1], weekEndKey |-> keys[7],
          segments |-> laid.segments, laneCount |-> laid.laneCount ]

\* CalendarMonth.render(events): one row per week of the displayed month
calendarMonthRender(year, month, events) ==
    LET weeks == groupWeeks(buildDayGrid(year, month))
    IN  [ w \in 1..Len(weeks) |-> buildWeekRow(weeks[w], events) ]

(***************************************************************************)
(* CalendarList.render: the cards of the list view.                        *)
(***************************************************************************)
\* insert e behind every event whose start does not sort after e's start
RECURSIVE insertByStart(_, _)
insertByStart(sorted, e) ==
    IF sorted = << >> THEN << e >>
    ELSE IF StrLess(e.dates.start, Head(sorted).dates.start) THEN << e >> \o sorted
    ELSE << Head(sorted) >> \o insertByStart(Tail(sorted), e)

\* [...events].sort((a, b) => a.dates.start.localeCompare(b.dates.start))
RECURSIVE sortByStart(_)
sortByStart(events) ==
    IF events = << >> THEN << >>
    ELSE insertByStart(sortByStart(SubSeq(events, 1, Len(events) - 1)),
                       events[Len(events)])

\* CalendarList.render(events): the ids of the cards appended, in order
calendarListRender(events) ==
    LET sorted == sortByStart(events)
    IN  [ i \in 1..Len(sorted) |-> sorted[i].id ]

(***************************************************************************)
(* Filters.                                                                *)
(***************************************************************************)
\* Filters._state as the script defines it
defaultFilterState ==
    [ disciplines |-> {}, circuits |-> {}, ageGroups |-> {},
      pcssOnly |-> FALSE, hidePast |-> FALSE ]

\* String.prototype.toUpperCase on the strings of the model
toUpperCase(s) ==
    CASE s = "sl"  -> "SL"
      [] s = "gs"  -> "GS"
      [] s = "u14" -> "U14"
      [] s = "u16" -> "U16"
      [] OTHER     -> s

\* Filters.init: the URL presets added to the state
filtersInit(state, params) ==
    [ disciplines |-> state.disciplines \cup
                        { toUpperCase(params.discipline[i]) : i \in DOMAIN params.discipline },
      circuits    |-> state.circuits \cup Range(params.circuit),
      ageGroups   |-> state.ageGroups \cup
                        { toUpperCase(params.age[i]) : i \in DOMAIN params.age },
      pcssOnly    |-> IF params.pcss THEN TRUE ELSE state.pcssOnly,
      hidePast    |-> IF params.past THEN FALSE ELSE state.hidePast ]

\* toggleMember that never deletes
toggleMemberAddOnly(set, value) == set \cup {value}

\* toggleMember as a radio button: adding a value drops the others
toggleMemberExclusive(set, value) ==
    IF value \in set THEN set \ {value} ELSE {value}

\* set.has(value) ? set.delete(value) : set.add(value)
toggleMember(set, value) ==
    IF value \in set THEN set \ {value} ELSE set \cup {value}

\* toggleChip whose last branch is an else: any other kind toggles the age groups
toggleChipElseAge(state, filter, value) ==
    IF filter = "past" THEN [ state EXCEPT !.hidePast = ~state.hidePast ]
    ELSE IF filter = "pcss" THEN [ state EXCEPT !.pcssOnly = ~state.pcssOnly ]
    ELSE IF filter = "discipline"
         THEN [ state EXCEPT !.disciplines = toggleMember(state.disciplines, value) ]
    ELSE IF filter = "circuit"
         THEN [ state EXCEPT !.circuits = toggleMember(state.circuits, value) ]
    ELSE [ state EXCEPT !.ageGroups = toggleMember(state.ageGroups, value) ]

\* Filters._toggleChip(chip) with chip.dataset = {filter, value}: the new state
toggleChip(state, filter, value) ==
    IF filter = "past" THEN [ state EXCEPT !.hidePast = ~state.hidePast ]
    ELSE IF filter = "pcss" THEN [ state EXCEPT !.pcssOnly = ~state.pcssOnly ]
    ELSE IF filter = "discipline"
         THEN [ state EXCEPT !.disciplines = toggleMember(state.disciplines, value) ]
    ELSE IF filter = "circuit"
         THEN [ state EXCEPT !.circuits = toggleMember(state.circuits, value) ]
    ELSE IF filter = "age"
         THEN [ state EXCEPT !.ageGroups = toggleMember(state.ageGroups, value) ]
    ELSE state

\* clearAll that forgets the hidePast toggle
clearAllKeepsPast(state) ==
    [ state EXCEPT !.disciplines = {}, !.circuits = {}, !.ageGroups = {},
                   !.pcssOnly = FALSE ]

\* Filters.clearAll(): the new state
clearAll(state) ==
    [ state EXCEPT !.disciplines = {}, !.circuits = {}, !.ageGroups = {},
                   !.pcssOnly = FALSE, !.hidePast = FALSE ]

\* e.disciplines || []
eventDisciplines(e) == IF "disciplines" \in DOMAIN e THEN e.disciplines ELSE << >>

\* e.age_groups || []
eventAgeGroups(e) == IF "age_groups" \in DOMAIN e THEN e.age_groups ELSE << >>

\* circuitsHas that lets an event without circuit through
circuitsHasOrAbsent(state, e) == "circuit" \notin DOMAIN e \/ e.circuit \in state.circuits

\* this._state.circuits.has(e.circuit); an absent circuit is undefined, never a member
circuitsHas(state, e) == "circuit" \in DOMAIN e /\ e.circuit \in state.circuits

\* truthiness of e.pcss_confirmed
pcssConfirmed(e) == "pcss_confirmed" \in DOMAIN e /\ e.pcss_confirmed

\* eventPasses that asks for every selected discipline instead of any
eventPassesAllOf(state, e) ==
    IF state.hidePast /\ e.status = "completed" THEN FALSE
    ELSE IF state.pcssOnly /\ ~pcssConfirmed(e) THEN FALSE
    ELSE IF state.disciplines # {}
            /\ ~\A d \in state.disciplines : d \in Range(eventDisciplines(e)) THEN FALSE
    ELSE IF state.circuits # {} /\ ~circuitsHas(state, e) THEN FALSE
    ELSE IF state.ageGroups # {}
            /\ ~\E a \in state.ageGroups : a \in Range(eventAgeGroups(e)) THEN FALSE
    ELSE TRUE

\* the callback of events.filter in Filters.filter
eventPasses(state, e) ==
    IF state.hidePast /\ e.status = "completed" THEN FALSE
    ELSE IF state.pcssOnly /\ ~pcssConfirmed(e) THEN FALSE
    ELSE IF state.disciplines # {}
            /\ ~\E d \in state.disciplines : d \in Range(eventDisciplines(e)) THEN FALSE
    ELSE IF state.circuits # {} /\ ~circuitsHas(state, e) THEN FALSE
    ELSE IF state.ageGroups # {}
            /\ ~\E a \in state.ageGroups : a \in Range(eventAgeGroups(e)) THEN FALSE
    ELSE TRUE

\* Filters.filter that collects the retained events with unshift: last one first
RECURSIVE filtersFilterReversed(_, _)
filtersFilterReversed(state, events) ==
    IF events = << >> THEN << >>
    ELSE IF eventPasses(state, Head(events))
         THEN filtersFilterReversed(state, Tail(events)) \o << Head(events) >>
         ELSE filtersFilterReversed(state, Tail(events))

\* Filters.filter that splices a dropped event out of the array it is looping over:
\* the event behind a dropped one is never tested
RECURSIVE filtersFilterSplice(_, _)
filtersFilterSplice(state, events) ==
    IF events = << >> THEN << >>
    ELSE IF eventPasses(state, Head(events))
         THEN << Head(events) >> \o filtersFilterSplice(state, Tail(events))
         ELSE IF Len(events) = 1 THEN << >>
         ELSE << events[2] >> \o filtersFilterSplice(state, Tail(Tail(events)))

\* Filters.filter(events)
RECURSIVE filtersFilter(_, _)
filtersFilter(state, events) ==
    IF events = << >> THEN << >>
    ELSE IF eventPasses(state, Head(events))
         THEN << Head(events) >> \o filtersFilter(state, Tail(events))
         ELSE filtersFilter(state, Tail(events))

\* the chips Filters._buildChips creates, as <<data-filter, data-value>>
discOrder == << "SL", "GS", "SG", "DH", "PS", "K", "AC" >>
circuitOrder == << "IMD", "Western Region", "USSA", "FIS" >>
ageOrder == << "U10", "U12", "U14", "U16", "U18", "U19", "U21" >>

buildChips(events) ==
    LET es == Range(events)
    IN  { << "discipline", d >> : d \in { x \in Range(discOrder) :
                \E e \in es : x \in Range(eventDisciplines(e)) } }
        \cup
        { << "circuit", c >> : c \in { x \in Range(circuitOrder) :
                \E e \in es : "circuit" \in DOMAIN e /\ e.circuit = x } }
        \cup
        { << "age", a >> : a \in { x \in Range(ageOrder) :
                \E e \in es : x \in Range(eventAgeGroups(e)) } }
        \cup
        (IF \E e \in es : pcssConfirmed(e) THEN { << "pcss", "true" >> } ELSE {})
        \cup
        { << "past", "true" >> }

(***************************************************************************)
(* App.render.                                                             *)
(***************************************************************************)
\* App.render(): what it writes, from the state it reads
appRender(events, state, view, year, month) ==
    LET filtered == filtersFilter(state, events)
    IN  [ filtered    |-> filtered,
          monthTitle  |-> << month, year >>,
          weekRows    |-> calendarMonthRender(year, month, filtered),
          listCards   |-> calendarListRender(filtered),
          eventCount  |-> Len(filtered),
          emptyHidden |-> Len(filtered) # 0,
          monthHidden |-> IF Len(filtered) = 0 THEN TRUE ELSE view # "month",
          listHidden  |-> IF Len(filtered) = 0 THEN TRUE ELSE view = "month" ]

(***************************************************************************)
(* RacerSearch.  Strings of the search box are TLA+ strings; CharsOf gives *)
(* their characters, on which trim, toLowerCase and includes work.         *)
(***************************************************************************)
\* the characters of the strings the search box and the racer database hold
CharsOf(str) ==
    CASE str = ""         -> << >>
      [] str = "j "       -> << "j", " " >>
      [] str = "JA "      -> << "J", "A", " " >>
      [] str = "ro"       -> << "r", "o" >>
      [] str = "zz"       -> << "z", "z" >>
      [] str = "jane doe" -> << "j", "a", "n", "e", " ", "d", "o", "e" >>
      [] str = "jan roe"  -> << "j", "a", "n", " ", "r", "o", "e" >>
      [] str = "Jane Doe" -> << "J", "a", "n", "e", " ", "D", "o", "e" >>
      [] str = "Jan Roe"  -> << "J", "a", "n", " ", "R", "o", "e" >>

\* String.prototype.toLowerCase, character by character
lowerChar(c) ==
    CASE c = "J" -> "j" [] c = "A" -> "a" [] c = "D" -> "d" [] c = "R" -> "r"
      [] OTHER -> c
toLowerChars(cs) == [ i \in DOMAIN cs |-> lowerChar(cs[i]) ]

\* String.prototype.trim
RECURSIVE trimLeft(_)
trimLeft(cs) == IF cs # << >> /\ Head(cs) = " " THEN trimLeft(Tail(cs)) ELSE cs
RECURSIVE trimRight(_)
trimRight(cs) ==
    IF cs # << >> /\ cs[Len(cs)] = " " THEN trimRight(SubSeq(cs, 1, Len(cs) - 1)) ELSE cs
trimChars(cs) == trimRight(trimLeft(cs))

\* String.prototype.includes
includesChars(cs, q) ==
    \E i \in 0..(Len(cs) - Len(q)) : SubSeq(cs, i + 1, i + Len(q)) = q

\* this._inputEl.value.trim().toLowerCase()
queryOf(value) == << >> \o toLowerChars(trimChars(CharsOf(value)))

\* this._data.racers.find(r => r.key === key): << racer >>, or << >> for undefined
findRacer(data, key) ==
    LET hits == { i \in DOMAIN data.racers : data.racers[i].key = key }
    IN  IF hits = {} THEN << >> ELSE << data.racers[Min(hits)] >>

\* RacerSearch.getSelectedEventIds(): << the set >>, or << >> for null
getSelectedEventIds(r) ==
    IF r.selected = << >> THEN << >> ELSE << Range(r.selected[1].event_ids) >>

\* RacerSearch._hideDropdown()
hideDropdown(r) == [ r EXCEPT !.dropdown = "hidden", !.highlight = -1 ]

\* the document click listener of _bindEvents for a click outside the search box;
\* a page that never ran RacerSearch.init has no such listener
clickOutside(r) == IF r.wired THEN hideDropdown(r) ELSE r

\* the racers whose key includes the query, in the order of the array
RECURSIVE matchingKeys(_, _)
matchingKeys(racers, query) ==
    IF racers = << >> THEN << >>
    ELSE IF includesChars(CharsOf(Head(racers).key), query)
         THEN << Head(racers).key >> \o matchingKeys(Tail(racers), query)
         ELSE matchingKeys(Tail(racers), query)

\* RacerSearch._showResults(query)
showResults(r, query) ==
    IF r.data = << >> THEN hideDropdown(r)
    ELSE LET all     == matchingKeys(r.data[1].racers, query)
             matches == SubSeq(all, 1, Min({ 10, Len(all) }))
         IN  IF matches = << >>
             THEN [ r EXCEPT !.dropdown = "empty", !.items = << >>, !.highlight = -1 ]
             ELSE [ r EXCEPT !.dropdown = "results", !.items = matches, !.highlight = -1 ]

\* RacerSearch._updateURL(racerKey): searchParams.set / delete, history.replaceState
updateURL(loc, hist, racerKey) ==
    [ location |-> [ loc EXCEPT !.racer = racerKey ], historyLen |-> hist ]

\* RacerSearch._loadData(callback): the flag set and the fetch issued
loadData(r, inFlight, callback) ==
    [ racer |-> [ r EXCEPT !.loading = TRUE ], fetches |-> Append(inFlight, callback) ]

\* onInput that lets a query of one character through (query.length < 1)
onInputMinOne(r, inFlight, loc, hist) ==
    LET query    == queryOf(r.inputValue)
        deselect == r.selected # << >>
        r1       == IF deselect THEN [ r EXCEPT !.selected = << >> ] ELSE r
        url      == IF deselect THEN updateURL(loc, hist, "")
                    ELSE [ location |-> loc, historyLen |-> hist ]
        out(r2, f2) == [ racer |-> r2, fetches |-> f2, location |-> url.location,
                         historyLen |-> url.historyLen, changed |-> deselect ]
    IN  IF Len(query) < 1 THEN out(hideDropdown(r1), inFlight)
        ELSE IF ~r1.loaded /\ ~r1.loading
             THEN LET ld == loadData(r1, inFlight, [ kind |-> "input", query |-> query ])
                  IN  out(ld.racer, ld.fetches)
        ELSE IF r1.loaded THEN out(showResults(r1, query), inFlight)
        ELSE out(r1, inFlight)

\* RacerSearch._onInput(): the new RacerSearch state, fetches and URL, and whether
\* the onChange callback was called
onInput(r, inFlight, loc, hist) ==
    LET query    == queryOf(r.inputValue)
        deselect == r.selected # << >>
        r1       == IF deselect THEN [ r EXCEPT !.selected = << >> ] ELSE r
        url      == IF deselect THEN updateURL(loc, hist, "")
                    ELSE [ location |-> loc, historyLen |-> hist ]
        out(r2, f2) == [ racer |-> r2, fetches |-> f2, location |-> url.location,
                         historyLen |-> url.historyLen, changed |-> deselect ]
    IN  IF Len(query) < 2 THEN out(hideDropdown(r1), inFlight)
        ELSE IF ~r1.loaded /\ ~r1.loading
             THEN LET ld == loadData(r1, inFlight, [ kind |-> "input", query |-> query ])
                  IN  out(ld.racer, ld.fetches)
        ELSE IF r1.loaded THEN out(showResults(r1, query), inFlight)
        ELSE out(r1, inFlight)

\* RacerSearch._onKeydown(e) for ArrowDown, ArrowUp and Escape; Enter clicks the
\* highlighted item and any other key does nothing
onKeydown(r, key) ==
    IF r.dropdown = "hidden" \/ r.dropdown = "empty" \/ r.items = << >> THEN r
    ELSE IF key = "ArrowDown"
         THEN [ r EXCEPT !.highlight = Min({ r.highlight + 1, Len(r.items) - 1 }) ]
    ELSE IF key = "ArrowUp"
         THEN [ r EXCEPT !.highlight = IF r.highlight - 1 > 0 THEN r.highlight - 1 ELSE 0 ]
    ELSE IF key = "Escape" THEN hideDropdown(r)
    ELSE r

\* RacerSearch._selectRacer(racer), up to the onChange callback
selectRacer(r, rec) ==
    hideDropdown([ r EXCEPT !.selected = << rec >>, !.inputValue = rec.name ])

\* RacerSearch.clear(), up to _updateURL
clearRacer(r) == hideDropdown([ r EXCEPT !.selected = << >>, !.inputValue = "" ])

\* the continuation of initFromURL once the data is there
initFromURLLoaded(r, racerKey) ==
    IF r.data = << >> THEN r
    ELSE LET match == findRacer(r.data[1], racerKey)
         IN  IF match = << >> THEN r
             ELSE [ r EXCEPT !.selected = match, !.inputValue = match[1].name ]

(***************************************************************************)
(* Inputs: URL parameters, the clock, race databases, chips.               *)
(***************************************************************************)
\* an ISO calendar date "YYYY-MM-DD" as the race database writes it (month 1-based)
IsoDate(y, m, d) ==
    NumToString(y) \o << CharDash >> \o PadStart2(NumToString(m))
                   \o << CharDash >> \o PadStart2(NumToString(d))

\* URLParams.parse() of a page opened without a query string
NoParams ==
    [ embed |-> FALSE, view |-> "month", discipline |-> << >>, circuit |-> << >>,
      age |-> << >>, pcss |-> FALSE, past |-> FALSE, racer |-> "" ]

\* ?view=list&discipline=gs&circuit=IMD&pcss=true&past=true
PresetList ==
    [ NoParams EXCEPT !.view = "list", !.discipline = << "gs" >>,
                      !.circuit = << "IMD" >>, !.pcss = TRUE, !.past = TRUE ]

UrlPresets == { NoParams, PresetList }

\* ?view=agenda: URLParams.parse() hands any value of the parameter on
PresetAgenda == [ NoParams EXCEPT !.view = "agenda" ]

ViewPresets == UrlPresets \cup { PresetAgenda }

\* ?racer=jane+doe and ?embed=true
PresetRacer == [ NoParams EXCEPT !.racer = "jane doe" ]
PresetEmbed == [ NoParams EXCEPT !.embed = TRUE ]

RacerPresets == { PresetRacer, PresetEmbed }

\* data/racer_database.json: one racer of event a, one of events b and c
RacerData ==
    [ racers |-> << [ name |-> "Jane Doe", key |-> "jane doe", club |-> "PCSS",
                      event_ids |-> << "a" >> ],
                    [ name |-> "Jan Roe", key |-> "jan roe", club |-> "SB",
                      event_ids |-> << "b", "c" >> ] >> ]

\* what the user leaves in the search box: nothing, one character and a blank, a
\* query that matches both racers once trimmed and lowered, and a query that
\* matches none
TypedTexts == { "", "j ", "JA ", "zz" }

\* the chips clicked in the racer specification
RacerChips == { << "discipline", "GS" >>, << "past", "true" >> }

\* the day the page is opened
TodaySet == { [ year |-> 2026, month |-> 0, day |-> 15 ] }

\* the days the page of the grid specification is opened: every month of a leap
\* year and of a common year
GridTodays == { [ year |-> y, month |-> m, day |-> 15 ] : y \in { 2024, 2026 }, m \in 0..11 }

\* race databases of the application specification: events that differ in the
\* fields the filters read; eventC lacks the optional fields
eventA ==
    [ id |-> "a", dates |-> [ start |-> IsoDate(2026, 2, 9), end |-> IsoDate(2026, 2, 10) ],
      disciplines |-> << "SL", "GS" >>, circuit |-> "IMD", age_groups |-> << "U14" >>,
      status |-> "upcoming", pcss_confirmed |-> TRUE ]
eventB ==
    [ id |-> "b", dates |-> [ start |-> IsoDate(2025, 12, 30), end |-> IsoDate(2026, 1, 2) ],
      disciplines |-> << "SL" >>, circuit |-> "FIS", age_groups |-> << "U16" >>,
      status |-> "completed", pcss_confirmed |-> FALSE ]
eventC ==
    [ id |-> "c", dates |-> [ start |-> IsoDate(2026, 2, 10), end |-> IsoDate(2026, 2, 10) ],
      status |-> "upcoming" ]

AppEventPool == { eventA, eventB, eventC }

\* the race database of the racer specification, of which a document holds the
\* first events
RacerEvents == << eventB, eventA, eventC >>

\* the arrays of the application specification hold distinct events of the pool
Distinct(events) == \A i, j \in DOMAIN events : events[i] = events[j] => i = j

\* race databases of the layout specification: the arrays of at most MaxEvents
\* events whose dates range over LayoutDates with start <= end
LayoutDates ==
    { << 2026, 1, 2 >>, << 2026, 1, 11 >>, << 2026, 2, 9 >>, << 2026, 2, 10 >> }

LayoutSpans ==
    { sp \in LayoutDates \X LayoutDates :
        DayNumber(sp[1][1], sp[1][2] - 1, sp[1][3]) <= DayNumber(sp[2][1], sp[2][2] - 1, sp[2][3]) }

layoutEvent(i, sp) ==
    [ id |-> ToString(i),
      dates |-> [ start |-> IsoDate(sp[1][1], sp[1][2], sp[1][3]),
                  end   |-> IsoDate(sp[2][1], sp[2][2], sp[2][3]) ],
      disciplines |-> << "SL" >>, circuit |-> "IMD", age_groups |-> << "U14" >>,
      status |-> "upcoming", pcss_confirmed |-> TRUE ]

\* the array whose i-th event has the i-th date range of `spans`
layoutEvents(spans) == [ i \in DOMAIN spans |-> layoutEvent(i, spans[i]) ]

\* chips handed to Filters._toggleChip: chips of _buildChips, a chip whose value
\* the database may lack, and a chip of a kind _toggleChip does not know
ChipInputs ==
    { << "discipline", "SL" >>, << "discipline", "GS" >>, << "circuit", "IMD" >>,
      << "age", "U14" >>, << "pcss", "true" >>, << "past", "true" >>,
      << "series", "true" >> }

\* race databases of the export specification: events that end in the middle of a
\* month, on the last day of a 31-day and of a 30-day month, on the 28th and 29th
\* of a leap year's February, on the 28th of a common year's February and on the
\* last day of a year
ExportDates ==
    { << 2024, 2, 28 >>, << 2024, 2, 29 >>, << 2026, 1, 15 >>, << 2026, 1, 31 >>,
      << 2026, 2, 28 >>, << 2026, 4, 30 >>, << 2026, 12, 31 >> }

ExportSpans ==
    { sp \in ExportDates \X ExportDates :
        DayNumber(sp[1][1], sp[1][2] - 1, sp[1][3]) <= DayNumber(sp[2][1], sp[2][2] - 1, sp[2][3]) }


(***************************************************************************)
(* CalendarExport and EventModal.  Of the calendar object the lines UID,   *)
(* DTSTART, DTEND and the VALARM block are kept, of the Google Calendar    *)
(* link the parameters action and dates.                                   *)
(***************************************************************************)
CharSlash == 47

\* str.replace(/-/g, '')
RECURSIVE replaceDashes(_)
replaceDashes(str) ==
    IF str = << >> THEN << >>
    ELSE IF Head(str) = CharDash THEN replaceDashes(Tail(str))
    ELSE << Head(str) >> \o replaceDashes(Tail(str))

\* setDate that leaves the month alone when n is past its last day
setDateKeepsMonth(d, n) == [ d EXCEPT !.day = n ]

\* Date.prototype.setDate(n) for 1 <= n <= last day of the month + 1: a day past
\* the end of the month is the first day of the next month
setDate(d, n) ==
    IF n <= daysInMonth(d.year, d.month) THEN [ d EXCEPT !.day = n ]
    ELSE IF d.month = 11 THEN [ year |-> d.year + 1, month |-> 0, day |-> 1 ]
    ELSE [ year |-> d.year, month |-> d.month + 1, day |-> 1 ]

\* CalendarExport._addOneDay(isoDate): new Date(isoDate + 'T00:00:00') is local
\* midnight of the date written, as parseISO gives it
addOneDay(isoDate) ==
    LET d0 == parseISO(isoDate)
        d  == setDate(d0, d0.day + 1)
    IN  NumToString(d.year) \o << CharDash >> \o PadStart2(NumToString(d.month + 1))
                            \o << CharDash >> \o PadStart2(NumToString(d.day))

\* CalendarExport.googleCalendarUrl(event): the parameters of the link
googleCalendarUrl(event) ==
    LET start == replaceDashes(event.dates.start)
        end   == replaceDashes(addOneDay(event.dates.end))
    IN  [ action |-> "TEMPLATE", dates |-> start \o << CharSlash >> \o end ]

\* CalendarExport._generateIcs(event): the VEVENT and its VALARM blocks
generateIcs(event) ==
    [ uid     |-> event.id \o "@sim.sports",
      dtstart |-> replaceDashes(event.dates.start),
      dtend   |-> replaceDashes(addOneDay(event.dates.end)),
      alarms  |-> << [ trigger |-> "-P1D", action |-> "DISPLAY" ] >> ]

(***************************************************************************)
(* The state machine.                                                      *)
(***************************************************************************)
\* the document before App.render has run
DomBlank ==
    [ filtered |-> << >>, monthTitle |-> << 0, 0 >>, weekRows |-> << >>,
      listCards |-> << >>, eventCount |-> 0,
      emptyHidden |-> TRUE, monthHidden |-> FALSE, listHidden |-> TRUE ]

\* EventModal before any event was opened
modalBlank == [ hidden |-> TRUE, current |-> << >>, googleUrl |-> << >>, download |-> << >> ]

\* RacerSearch as the script defines it; `wired` tells whether RacerSearch.init ran
racerIdle(wired) ==
    [ wired |-> wired, data |-> << >>, loaded |-> FALSE, loading |-> FALSE,
      selected |-> << >>, inputValue |-> "", dropdown |-> "hidden", items |-> << >>,
      highlight |-> -1 ]

\* the page as served: the scripts are loaded, DOMContentLoaded has started App.init
\* and App.init waits for DataLoader.load()
PageLoaded(presets, todays, wired) ==
    /\ phase = "loading"
    /\ urlParams \in presets
    /\ today \in todays
    /\ allEvents = << >>
    /\ currentView = "month"
    /\ fState = defaultFilterState
    /\ cmYear = 0
    /\ cmMonth = 0
    /\ page = [ loadingHidden |-> FALSE, failedShown |-> FALSE, appHidden |-> TRUE ]
    /\ dom = DomBlank
    /\ dataFetches = 1
    /\ location = urlParams
    /\ historyLen = 1
    /\ racer = racerIdle(wired)
    /\ fetches = << >>
    /\ modal = modalBlank

\* the page of App as the sources have it: nothing calls RacerSearch.init
InitWith(presets) == PageLoaded(presets, TodaySet, FALSE)

Init == InitWith(UrlPresets)

InitLayout == InitWith({ NoParams })

\* App.init after DataLoader.load() resolved to a document with the array `events`.
\* switchView(this._currentView) renders; for the view "list" it then calls
\* CalendarList.scrollToToday, which CalendarList does not define: the TypeError
\* rejects App.init before it hides #loading-state and shows #app-content
AppInit(events) ==
    /\ phase = "loading"
    /\ LET view  == urlParams.view
           state == filtersInit(fState, urlParams)
       IN  /\ allEvents' = events
           /\ currentView' = view
           /\ fState' = state
           /\ cmYear' = today.year
           /\ cmMonth' = today.month
           /\ dom' = appRender(events, state, view, today.year, today.month)
    /\ page' = IF urlParams.view = "list" THEN page
               ELSE [ page EXCEPT !.loadingHidden = TRUE, !.appHidden = FALSE ]
    /\ phase' = "ready"
    /\ UNCHANGED << urlParams, today >>
    /\ UNCHANGED netVars

\* AppInitFailed that shows the message and asks DataLoader.load() again
AppInitFailedRetries ==
    /\ phase = "loading"
    /\ page' = [ page EXCEPT !.failedShown = TRUE ]
    /\ dataFetches' = dataFetches + 1
    /\ UNCHANGED << phase, urlParams, today, allEvents, currentView, fState, cmYear,
                    cmMonth, dom, location, historyLen, racer, fetches, modal >>

\* App.init after DataLoader.load() resolved to null or to a document without events
AppInitFailed ==
    /\ phase = "loading"
    /\ page' = [ page EXCEPT !.failedShown = TRUE ]
    /\ phase' = "failed"
    /\ UNCHANGED << urlParams, today, allEvents, currentView, fState, cmYear, cmMonth, dom >>
    /\ UNCHANGED netVars

\* Filters._toggleChip(chip), then the onChange callback App.render
ToggleChip(filter, value) ==
    /\ phase = "ready"
    /\ fState' = toggleChip(fState, filter, value)
    /\ UNCHANGED << phase, urlParams, today, allEvents, currentView, cmYear, cmMonth, page >>
    /\ racer' = clickOutside(racer)
    /\ UNCHANGED << dataFetches, location, historyLen, fetches, modal >>
    /\ dom' = appRender(allEvents, fState', currentView, cmYear, cmMonth)

\* Filters.clearAll(), then the onChange callback App.render
ClearAll ==
    /\ phase = "ready"
    /\ fState' = clearAll(fState)
    /\ UNCHANGED << phase, urlParams, today, allEvents, currentView, cmYear, cmMonth, page >>
    /\ racer' = clickOutside(racer)
    /\ UNCHANGED << dataFetches, location, historyLen, fetches, modal >>
    /\ dom' = appRender(allEvents, fState', currentView, cmYear, cmMonth)

\* switchView that sets the view and leaves the document as it is
SwitchViewNoRender(view) ==
    /\ phase = "ready"
    /\ currentView' = view
    /\ UNCHANGED << phase, urlParams, today, allEvents, fState, cmYear, cmMonth, page, dom >>
    /\ racer' = clickOutside(racer)
    /\ UNCHANGED << dataFetches, location, historyLen, fetches, modal >>

\* App.switchView(view)
SwitchView(view) ==
    /\ phase = "ready"
    /\ currentView' = view
    /\ UNCHANGED << phase, urlParams, today, allEvents, fState, cmYear, cmMonth, page >>
    /\ racer' = clickOutside(racer)
    /\ UNCHANGED << dataFetches, location, historyLen, fetches, modal >>
    /\ dom' = appRender(allEvents, fState, view, cmYear, cmMonth)

\* months between the displayed month and the month of `today`
monthsFromToday(year, month) == (year * 12 + month) - (today.year * 12 + today.month)

\* navigate that takes November for the last month (this._month > 10)
navigateWrapsEarly(year, month, delta) ==
    LET m1 == month + delta
        y2 == IF m1 > 10 THEN year + 1 ELSE year
        m2 == IF m1 > 10 THEN 0 ELSE m1
    IN  IF m2 < 0 THEN [ year |-> y2 - 1, month |-> 11 ]
        ELSE [ year |-> y2, month |-> m2 ]

\* CalendarMonth._navigate(delta): the new [year, month]
navigate(year, month, delta) ==
    LET m1 == month + delta
        y2 == IF m1 > 11 THEN year + 1 ELSE year
        m2 == IF m1 > 11 THEN 0 ELSE m1
    IN  IF m2 < 0 THEN [ year |-> y2 - 1, month |-> 11 ]
        ELSE [ year |-> y2, month |-> m2 ]

\* click on #month-prev (delta = -1) or #month-next (delta = 1)
Navigate(delta) ==
    /\ phase = "ready"
    /\ LET to == navigate(cmYear, cmMonth, delta)
       IN  /\ monthsFromToday(to.year, to.month) \in -NavRadius..NavRadius
           /\ cmYear' = to.year
           /\ cmMonth' = to.month
    /\ UNCHANGED << phase, urlParams, today, allEvents, currentView, fState, page >>
    /\ racer' = clickOutside(racer)
    /\ UNCHANGED << dataFetches, location, historyLen, fetches, modal >>
    /\ dom' = appRender(allEvents, fState, currentView, cmYear', cmMonth')

\* click on #month-today
Today ==
    /\ phase = "ready"
    /\ cmYear' = today.year
    /\ cmMonth' = today.month
    /\ UNCHANGED << phase, urlParams, today, allEvents, currentView, fState, page >>
    /\ racer' = clickOutside(racer)
    /\ UNCHANGED << dataFetches, location, historyLen, fetches, modal >>
    /\ dom' = appRender(allEvents, fState, currentView, today.year, today.month)

(***************************************************************************)
(* The event modal: a banner or a card is clicked, the modal shows the     *)
(* Google Calendar link, "Download .ics" writes the file; the subscribe    *)
(* button shows the subscribe options in the same modal.                   *)
(***************************************************************************)
\* the events whose banner (month view) or card (list view) is on the page
clickable ==
    IF ~dom.monthHidden
    THEN UNION { { seg.event : seg \in Range(dom.weekRows[w].segments) } :
                   w \in DOMAIN dom.weekRows }
    ELSE IF ~dom.listHidden THEN Range(dom.filtered)
    ELSE {}

\* click on the banner or the card of `event`: EventModal.open(event).  The banner's
\* listener stops the propagation of the click, the card's does not
OpenModal(event) ==
    /\ phase = "ready"
    /\ modal' = [ modal EXCEPT !.hidden = FALSE, !.current = << event >>,
                               !.googleUrl = << googleCalendarUrl(event) >> ]
    /\ racer' = IF dom.monthHidden THEN clickOutside(racer) ELSE racer
    /\ UNCHANGED << phase, urlParams, today, allEvents, currentView, fState, cmYear,
                    cmMonth, page, dom, dataFetches, location, historyLen, fetches >>

\* click on "Download .ics": CalendarExport.downloadIcs(EventModal._currentEvent)
DownloadIcs ==
    /\ phase = "ready"
    /\ ~modal.hidden /\ modal.googleUrl # << >>
    /\ modal' = [ modal EXCEPT !.download = << generateIcs(modal.current[1]) >> ]
    /\ racer' = clickOutside(racer)
    /\ UNCHANGED << phase, urlParams, today, allEvents, currentView, fState, cmYear,
                    cmMonth, page, dom, dataFetches, location, historyLen, fetches >>

\* click on the backdrop or on the close button (click = TRUE), or the key Escape:
\* EventModal.close()
CloseModal(click) ==
    /\ phase = "ready"
    /\ modal' = [ modal EXCEPT !.hidden = TRUE ]
    /\ racer' = IF click THEN clickOutside(racer) ELSE racer
    /\ UNCHANGED << phase, urlParams, today, allEvents, currentView, fState, cmYear,
                    cmMonth, page, dom, dataFetches, location, historyLen, fetches >>

\* click on #btn-subscribe: App.openSubscribeModal() writes the subscribe options
\* over the body of the modal, which then holds no event link, and shows the modal
OpenSubscribeModal ==
    /\ phase = "ready"
    /\ modal' = [ modal EXCEPT !.hidden = FALSE, !.googleUrl = << >> ]
    /\ racer' = clickOutside(racer)
    /\ UNCHANGED << phase, urlParams, today, allEvents, currentView, fState, cmYear,
                    cmMonth, page, dom, dataFetches, location, historyLen, fetches >>

Next ==
    \/ /\ phase = "loading"
       /\ \E n \in 0..MaxAppEvents : \E events \in [ 1..n -> AppEventPool ] :
            Distinct(events) /\ AppInit(events)
    \/ AppInitFailed
    \/ \E chip \in ChipInputs : ToggleChip(chip[1], chip[2])
    \/ ClearAll
    \/ \E view \in { "month", "list" } : SwitchView(view)
    \/ \E delta \in { -1, 1 } : Navigate(delta)
    \/ Today
    \/ OpenSubscribeModal
    \/ \E click \in BOOLEAN : CloseModal(click)

Spec == Init /\ [][Next]_vars

\* the application on pages whose view parameter may be any string
InitViews == InitWith(ViewPresets)

SpecViews == InitViews /\ [][Next]_vars

\* the layout engine on every small race database: the page without filters
NextLayout ==
    \/ /\ phase = "loading"
       /\ \E n \in 0..MaxEvents : \E spans \in [ 1..n -> LayoutSpans ] :
            AppInit(layoutEvents(spans))
    \/ \E delta \in { -1, 1 } : Navigate(delta)
    \/ Today

SpecLayout == InitLayout /\ [][NextLayout]_vars

\* the day grid of every month around every day of GridTodays
InitGrid == PageLoaded({ NoParams }, GridTodays, FALSE)

NextGrid ==
    \/ /\ phase = "loading"
       /\ \E n \in 0..MaxGridEvents : \E spans \in [ 1..n -> LayoutSpans ] :
            AppInit(layoutEvents(spans))
    \/ \E delta \in { -1, 1 } : Navigate(delta)
    \/ Today

SpecGrid == InitGrid /\ [][NextGrid]_vars

(***************************************************************************)
(* The page with the event modal: a banner or a card is clicked, the modal *)
(* shows the Google Calendar link, "Download .ics" writes the file.        *)
(***************************************************************************)
InitExport == PageLoaded({ NoParams }, TodaySet, FALSE)

NextExport ==
    \/ /\ phase = "loading"
       /\ \E n \in 1..MaxExportEvents : \E spans \in [ 1..n -> ExportSpans ] :
            AppInit(layoutEvents(spans))
    \/ \E view \in { "month", "list" } : SwitchView(view)
    \/ \E event \in clickable : OpenModal(event)
    \/ DownloadIcs
    \/ OpenSubscribeModal
    \/ \E click \in BOOLEAN : CloseModal(click)

SpecExport == InitExport /\ [][NextExport]_vars

(***************************************************************************)
(* The page with RacerSearch: RacerSearch.init(() => App.render()) has     *)
(* inserted the search box, and the handlers below run once App.init is    *)
(* through.                                                                *)
(***************************************************************************)
InitRacer == PageLoaded(RacerPresets, TodaySet, TRUE)

\* the sequence without its i-th element
RemoveAt(seq, i) == SubSeq(seq, 1, i - 1) \o SubSeq(seq, i + 1, Len(seq))

\* RacerSearch.initFromURL(params.racer)
RacerInitFromURL ==
    /\ phase = "ready" /\ racer.wired
    /\ IF urlParams.racer = ""
       THEN UNCHANGED << racer, fetches >>
       ELSE /\ Len(fetches) < MaxInFlight
            /\ LET ld == loadData(racer, fetches,
                                  [ kind |-> "url", key |-> urlParams.racer ])
               IN  racer' = ld.racer /\ fetches' = ld.fetches
    /\ UNCHANGED << modal, phase, urlParams, today, allEvents, currentView, fState, cmYear,
                    cmMonth, page, dom, dataFetches, location, historyLen >>

\* the state after _onInput ran on the RacerSearch state r
AfterInput(r) ==
    LET o == onInput(r, fetches, location, historyLen)
    IN  /\ Len(o.fetches) <= MaxInFlight
        /\ racer' = o.racer
        /\ fetches' = o.fetches
        /\ location' = o.location
        /\ historyLen' = o.historyLen
        /\ dom' = IF o.changed
                  THEN appRender(allEvents, fState, currentView, cmYear, cmMonth)
                  ELSE dom
        /\ UNCHANGED << modal, phase, urlParams, today, allEvents, currentView, fState, cmYear,
                        cmMonth, page, dataFetches >>

\* the user edits the search box to `text`: the input handler, _onInput
RacerInput(text) ==
    /\ phase = "ready" /\ racer.wired
    /\ AfterInput([ racer EXCEPT !.inputValue = text ])

\* the search box gets the focus: the focus handler
RacerFocus ==
    /\ phase = "ready" /\ racer.wired
    /\ IF Len(CharsOf(racer.inputValue)) >= 2 /\ racer.selected = << >>
       THEN AfterInput(racer)
       ELSE UNCHANGED vars

\* click on the item of the dropdown with data-key = key
RacerSelect(key) ==
    /\ phase = "ready" /\ racer.wired
    /\ racer.dropdown = "results"
    /\ key \in Range(racer.items)
    /\ LET found == findRacer(racer.data[1], key)
       IN  IF found = << >> THEN UNCHANGED vars
           ELSE LET url == updateURL(location, historyLen, found[1].key)
                IN  /\ racer' = selectRacer(racer, found[1])
                    /\ location' = url.location
                    /\ historyLen' = url.historyLen
                    /\ dom' = appRender(allEvents, fState, currentView, cmYear, cmMonth)
                    /\ UNCHANGED << modal, phase, urlParams, today, allEvents, currentView,
                                    fState, cmYear, cmMonth, page, dataFetches, fetches >>

\* click on the clear button of the search box: clear(), then the onChange callback
RacerClear ==
    /\ phase = "ready" /\ racer.wired
    /\ LET url == updateURL(location, historyLen, "")
       IN  /\ racer' = clearRacer(racer)
           /\ location' = url.location
           /\ historyLen' = url.historyLen
    /\ dom' = appRender(allEvents, fState, currentView, cmYear, cmMonth)
    /\ UNCHANGED << modal, phase, urlParams, today, allEvents, currentView, fState, cmYear,
                    cmMonth, page, dataFetches, fetches >>

\* the i-th fetch in flight resolves to the racer database: the second then of
\* _loadData and the callback
RacerFetchDone(i) ==
    /\ i \in DOMAIN fetches
    /\ LET cb == fetches[i]
           r1 == [ racer EXCEPT !.data = << RacerData >>, !.loaded = TRUE,
                                !.loading = FALSE ]
           r2 == IF cb.kind = "input" THEN showResults(r1, cb.query)
                 ELSE initFromURLLoaded(r1, cb.key)
       IN  /\ racer' = r2
           /\ dom' = IF cb.kind = "url" /\ findRacer(RacerData, cb.key) # << >>
                     THEN appRender(allEvents, fState, currentView, cmYear, cmMonth)
                     ELSE dom
    /\ fetches' = RemoveAt(fetches, i)
    /\ UNCHANGED << modal, phase, urlParams, today, allEvents, currentView, fState, cmYear,
                    cmMonth, page, dataFetches, location, historyLen >>

\* the i-th fetch in flight fails (network error, status not ok, bad JSON): catch
RacerFetchFailed(i) ==
    /\ i \in DOMAIN fetches
    /\ racer' = [ racer EXCEPT !.loading = FALSE, !.loaded = FALSE ]
    /\ fetches' = RemoveAt(fetches, i)
    /\ UNCHANGED << modal, phase, urlParams, today, allEvents, currentView, fState, cmYear,
                    cmMonth, page, dom, dataFetches, location, historyLen >>

\* a key goes down in the search box: the keydown handler, _onKeydown; the key
\* Escape also reaches the document's keydown listener, EventModal.close()
RacerKeydown(key) ==
    /\ phase = "ready" /\ racer.wired
    /\ IF key = "Enter"
       THEN IF racer.dropdown = "results" /\ racer.highlight \in 0..(Len(racer.items) - 1)
            THEN RacerSelect(racer.items[racer.highlight + 1])
            ELSE UNCHANGED vars
       ELSE /\ racer' = onKeydown(racer, key)
            /\ modal' = IF key = "Escape" THEN [ modal EXCEPT !.hidden = TRUE ] ELSE modal
            /\ UNCHANGED << phase, urlParams, today, allEvents, currentView, fState,
                            cmYear, cmMonth, page, dom, dataFetches, location, historyLen,
                            fetches >>

\* click on the page outside the search box and outside every other control: the
\* document click listener of _bindEvents
RacerClickOutside ==
    /\ phase = "ready" /\ racer.wired
    /\ racer' = clickOutside(racer)
    /\ UNCHANGED << modal, phase, urlParams, today, allEvents, currentView, fState,
                    cmYear, cmMonth, page, dom, dataFetches, location, historyLen,
                    fetches >>

NextRacer ==
    \/ /\ phase = "loading"
       /\ \E n \in 0..MaxAppEvents : AppInit(SubSeq(RacerEvents, 1, n))
    \/ AppInitFailed
    \/ \E chip \in RacerChips : ToggleChip(chip[1], chip[2])
    \/ ClearAll
    \/ RacerInitFromURL
    \/ \E text \in TypedTexts : RacerInput(text)
    \/ RacerFocus
    \/ \E key \in { "jane doe", "jan roe" } : RacerSelect(key)
    \/ RacerClear
    \/ \E key \in { "ArrowDown", "ArrowUp", "Enter", "Escape" } : RacerKeydown(key)
    \/ RacerClickOutside
    \/ \E i \in 1..MaxInFlight : RacerFetchDone(i)
    \/ \E i \in 1..MaxInFlight : RacerFetchFailed(i)

SpecRacer == InitRacer /\ [][NextRacer]_vars

(***************************************************************************)
(* The month view: what the claims about the layout engine read.           *)
(***************************************************************************)
\* the week rows of the displayed month
Weeks == groupWeeks(buildDayGrid(cmYear, cmMonth))

\* calendar dates as day ordinals: of a grid day, of an event's start and end
DayOrd(day) == DayNumber(day.year, day.month, day.day)
StartOrd(e) == DayOrd(parseISO(e.dates.start))
EndOrd(e) == DayOrd(parseISO(e.dates.end))

\* the event's date range intersects the 7 days of the week
Intersects(e, week) == StartOrd(e) <= DayOrd(week[7]) /\ EndOrd(e) >= DayOrd(week[1])

\* the day ordinal lies in the week
InWeek(ord, week) == DayOrd(week[1]) <= ord /\ ord <= DayOrd(week[7])

\* the rows the month view holds and the segments of row w
RowIds == DOMAIN dom.weekRows
Segs(w) == dom.weekRows[w].segments
SegsOf(w, e) == { i \in DOMAIN Segs(w) : Segs(w)[i].event = e }

\* 0-based index of the day of the week that is the given ordinal; {} if none
ColsOf(week, ord) == { c \in 0..6 : DayOrd(week[c + 1]) = ord }

\* the rows among `weeks` the event's date range intersects
RowsOf(e, weeks) == { w \in DOMAIN weeks : Intersects(e, weeks[w]) }

\* C1. Overlap soundness: in every week row of the month view, two distinct
\* segments with the same lane index have disjoint column ranges [startCol, endCol).
C1_OverlapSoundness ==
    \A w \in RowIds :
        LET segs == Segs(w)
        IN  \A i, j \in DOMAIN segs :
                (i # j /\ segs[i].lane = segs[j].lane)
                    => (segs[i].endCol <= segs[j].startCol
                        \/ segs[j].endCol <= segs[i].startCol)

\* a row where two segments share a lane and a third, which meets one of them,
\* lies in another lane
C1_Witness ==
    \E w \in RowIds : \E i, j, k \in DOMAIN Segs(w) :
        /\ i # j /\ Segs(w)[i].lane = Segs(w)[j].lane
        /\ Segs(w)[k].lane # Segs(w)[i].lane
        /\ Segs(w)[k].startCol < Segs(w)[i].endCol
        /\ Segs(w)[i].startCol < Segs(w)[k].endCol

\* C2. Coverage: every week row holds exactly one segment for each rendered event
\* with start <= last day of the week and end >= first day of the week, none for
\* any other event, and no segment of an event that was not rendered.
C2_Coverage ==
    phase = "ready" =>
        LET weeks == Weeks
        IN  /\ Len(dom.weekRows) = Len(weeks)
            /\ \A w \in RowIds :
                /\ \A n \in DOMAIN dom.filtered :
                    Cardinality(SegsOf(w, dom.filtered[n])) =
                        IF Intersects(dom.filtered[n], weeks[w]) THEN 1 ELSE 0
                /\ \A i \in DOMAIN Segs(w) : Segs(w)[i].event \in Range(dom.filtered)

\* a row with a segment for an event that ends on the first day of the week, and
\* another event without a segment in that row
C2_Witness ==
    /\ phase = "ready"
    /\ LET weeks == Weeks
       IN  \E w \in RowIds : \E e1, e2 \in Range(dom.filtered) :
            /\ EndOrd(e1) = DayOrd(weeks[w][1])
            /\ SegsOf(w, e1) # {}
            /\ SegsOf(w, e2) = {}

\* C3. Continuation consistency: a segment has contLeft exactly when its event
\* starts before the first day of the week, and contRight exactly when its event
\* ends after the last day of the week.
C3_ContinuationConsistency ==
    LET weeks == Weeks
    IN  \A w \in RowIds : \A i \in DOMAIN Segs(w) :
            LET seg == Segs(w)[i]
            IN  /\ seg.contLeft <=> (StartOrd(seg.event) < DayOrd(weeks[w][1]))
                /\ seg.contRight <=> (EndOrd(seg.event) > DayOrd(weeks[w][7]))

\* a segment of an event that starts on the first day of the week and runs into
\* the next week, a segment that only continues from the week before, and a
\* segment cut on both sides
C3_Witness ==
    LET weeks == Weeks
    IN  /\ \E w \in RowIds : \E i \in DOMAIN Segs(w) :
            /\ StartOrd(Segs(w)[i].event) = DayOrd(weeks[w][1])
            /\ ~Segs(w)[i].contLeft /\ Segs(w)[i].contRight
        /\ \E w \in RowIds : \E i \in DOMAIN Segs(w) :
            Segs(w)[i].contLeft /\ ~Segs(w)[i].contRight
        /\ \E w \in RowIds : \E i \in DOMAIN Segs(w) :
            Segs(w)[i].contLeft /\ Segs(w)[i].contRight

\* the event of scenario A: 2026-02-09 .. 2026-02-10
IsScenarioA(e) ==
    /\ parseISO(e.dates.start) = [ year |-> 2026, month |-> 1, day |-> 9 ]
    /\ parseISO(e.dates.end) = [ year |-> 2026, month |-> 1, day |-> 10 ]

\* C4. Column mapping: startCol is 1 + the index of the week day that is the
\* event's start when the start lies in the week and 1 otherwise; endCol is 2 + the
\* index of the week day that is the event's end when the end lies in the week and
\* 8 otherwise; so 1 <= startCol <= 7, 2 <= endCol <= 8 and startCol < endCol.
\* In February 2026 the event 2026-02-09..2026-02-10 lies in the second row with
\* startCol 2, endCol 4 and no continuation flag.
C4_ColumnMapping ==
    LET weeks == Weeks
    IN  \A w \in RowIds : \A i \in DOMAIN Segs(w) :
            LET seg  == Segs(w)[i]
                sIdx == ColsOf(weeks[w], StartOrd(seg.event))
                eIdx == ColsOf(weeks[w], EndOrd(seg.event))
            IN  /\ seg.startCol = (IF sIdx = {} THEN 1 ELSE 1 + Min(sIdx))
                /\ seg.endCol = (IF eIdx = {} THEN 8 ELSE 2 + Min(eIdx))
                /\ seg.startCol \in 1..7
                /\ seg.endCol \in 2..8
                /\ seg.startCol < seg.endCol
                /\ (IsScenarioA(seg.event) /\ cmYear = 2026 /\ cmMonth = 1)
                    => /\ w = 2
                       /\ seg.startCol = 2 /\ seg.endCol = 4
                       /\ ~seg.contLeft /\ ~seg.contRight

\* February 2026 with the segment of scenario A, beside a segment that comes in
\* from the week before, below a segment cut on both sides
C4_Witness ==
    /\ cmYear = 2026 /\ cmMonth = 1
    /\ \E i \in DOMAIN Segs(2) :
        IsScenarioA(Segs(2)[i].event) /\ Segs(2)[i].startCol = 2 /\ Segs(2)[i].endCol = 4
    /\ \E i \in DOMAIN Segs(2) :
        Segs(2)[i].contLeft /\ Segs(2)[i].startCol = 1 /\ Segs(2)[i].endCol < 8
    /\ \E i \in DOMAIN Segs(1) : Segs(1)[i].startCol = 1 /\ Segs(1)[i].endCol = 8

\* C5. Multi-week events: a rendered event whose date range intersects k >= 2
\* rows of the displayed month has exactly k segments, one in each of these rows;
\* the segment in the row of its start date has contRight only, the segment in the
\* row of its end date has contLeft only, and a segment in any other of its rows
\* has both flags and spans columns 1 to 8.
C5_MultiWeek ==
    phase = "ready" =>
        LET weeks == Weeks
        IN  \A n \in DOMAIN dom.filtered :
                LET e    == dom.filtered[n]
                    rows == RowsOf(e, weeks)
                IN  Cardinality(rows) >= 2 =>
                    /\ \A w \in RowIds :
                        Cardinality(SegsOf(w, e)) = (IF w \in rows THEN 1 ELSE 0)
                    /\ \A w \in rows : \A i \in SegsOf(w, e) :
                        LET seg == Segs(w)[i]
                        IN  IF InWeek(StartOrd(e), weeks[w])
                            THEN seg.contRight /\ ~seg.contLeft
                            ELSE IF InWeek(EndOrd(e), weeks[w])
                            THEN seg.contLeft /\ ~seg.contRight
                            ELSE /\ seg.contLeft /\ seg.contRight
                                 /\ seg.startCol = 1 /\ seg.endCol = 8

\* a ten-day event with three segments: its first, a middle and its last row
C5_Witness ==
    /\ phase = "ready"
    /\ LET weeks == Weeks
       IN  \E n \in DOMAIN dom.filtered :
            LET e    == dom.filtered[n]
                rows == RowsOf(e, weeks)
            IN  /\ EndOrd(e) - StartOrd(e) = 9
                /\ Cardinality(rows) = 3
                /\ \A w \in rows : SegsOf(w, e) # {}
                /\ \E w \in rows : InWeek(StartOrd(e), weeks[w])
                /\ \E w \in rows : InWeek(EndOrd(e), weeks[w])

(***************************************************************************)
(* The filter engine: what the claims about Filters and App.render read.   *)
(***************************************************************************)
\* an optional field of an event record, or a default when the record lacks it
FieldOr(e, name, default) == IF name \in DOMAIN e THEN e[name] ELSE default

\* the event satisfies the five predicates of the filter state
Keeps(state, e) ==
    /\ state.hidePast => e.status # "completed"
    /\ state.pcssOnly => FieldOr(e, "pcss_confirmed", FALSE)
    /\ state.disciplines = {}
        \/ Range(FieldOr(e, "disciplines", << >>)) \cap state.disciplines # {}
    /\ state.circuits = {}
        \/ ("circuit" \in DOMAIN e /\ e.circuit \in state.circuits)
    /\ state.ageGroups = {}
        \/ Range(FieldOr(e, "age_groups", << >>)) \cap state.ageGroups # {}

\* only the discipline GS is selected
OnlyGs(state) == state = [ defaultFilterState EXCEPT !.disciplines = { "GS" } ]

\* C6. Filter semantics: the events App.render shows are exactly the events of
\* App._allEvents that satisfy (hidePast => not completed) and (pcssOnly =>
\* pcss_confirmed) and, for disciplines, circuits and age groups, (set empty or
\* the event matches the set); with only GS selected an event with [SL, GS] is
\* kept and an event with [SL] is dropped.
C6_FilterSemantics ==
    phase = "ready" =>
        /\ Range(dom.filtered) = { e \in Range(allEvents) : Keeps(fState, e) }
        /\ OnlyGs(fState) =>
            /\ eventA \in Range(allEvents) => eventA \in Range(dom.filtered)
            /\ eventB \notin Range(dom.filtered)

\* scenario D: only GS selected, the [SL, GS] event kept, the [SL] event dropped
C6_Witness ==
    /\ phase = "ready"
    /\ OnlyGs(fState)
    /\ allEvents = << eventB, eventA >>
    /\ dom.filtered = << eventA >>

\* s is t with some elements left out, the others in the order of t
RECURSIVE IsSubsequence(_, _)
IsSubsequence(s, t) ==
    IF s = << >> THEN TRUE
    ELSE IF t = << >> THEN FALSE
    ELSE IF Head(s) = Head(t) THEN IsSubsequence(Tail(s), Tail(t))
    ELSE IsSubsequence(s, Tail(t))

\* the filter states one chip toggle or clearAll leads to
NextFilterStates(state) ==
    { toggleChip(state, chip[1], chip[2]) : chip \in ChipInputs } \cup { clearAll(state) }

\* C7. The rendering path never mutates filter state: once the data is loaded no
\* step changes App._allEvents; a step that re-renders for another month or view
\* leaves the five filter predicates as they were, and the filter state changes
\* only by a chip toggle or clearAll; the events a render shows are events of
\* App._allEvents in their original relative order.
C7_RenderKeepsFilterState ==
    [][ phase = "ready" =>
            /\ allEvents' = allEvents
            /\ (cmYear' # cmYear \/ cmMonth' # cmMonth \/ currentView' # currentView)
                => fState' = fState
            /\ fState' # fState => fState' \in NextFilterStates(fState)
            /\ IsSubsequence(dom'.filtered, allEvents') ]_vars

\* a render for another month, under an active filter, that shows two events of
\* the array in their order and hides none of the state
C7_Witness ==
    /\ phase = "ready"
    /\ cmMonth # today.month
    /\ allEvents = << eventC, eventA >>
    /\ fState.hidePast
    /\ dom.filtered = allEvents
    /\ dom.monthTitle = << cmMonth, cmYear >>

\* both sets are equal but for the membership of the value, which differs
Flipped(before, after, value) ==
    /\ after \ {value} = before \ {value}
    /\ (value \in after) # (value \in before)

\* C8. Chip toggle is a symmetric difference: a toggle of a discipline, circuit
\* or age chip flips the membership of exactly its value in the set of its kind,
\* a toggle of the pcss or past chip flips that boolean, the other four
\* predicates stay as they were, and the same toggle again restores the state.
C8_ToggleSymmetricDifference ==
    [][ \A chip \in ChipInputs :
            (ToggleChip(chip[1], chip[2])
             /\ chip[1] \in { "discipline", "circuit", "age", "pcss", "past" })
            => /\ IF chip[1] = "discipline"
                  THEN Flipped(fState.disciplines, fState'.disciplines, chip[2])
                  ELSE fState'.disciplines = fState.disciplines
               /\ IF chip[1] = "circuit"
                  THEN Flipped(fState.circuits, fState'.circuits, chip[2])
                  ELSE fState'.circuits = fState.circuits
               /\ IF chip[1] = "age"
                  THEN Flipped(fState.ageGroups, fState'.ageGroups, chip[2])
                  ELSE fState'.ageGroups = fState.ageGroups
               /\ fState'.pcssOnly = (IF chip[1] = "pcss" THEN ~fState.pcssOnly
                                      ELSE fState.pcssOnly)
               /\ fState'.hidePast = (IF chip[1] = "past" THEN ~fState.hidePast
                                      ELSE fState.hidePast)
               /\ toggleChip(fState', chip[1], chip[2]) = fState ]_vars

\* the GS preset of the URL toggled off and the U14 chip of the database toggled on
C8_Witness ==
    /\ phase = "ready"
    /\ urlParams = PresetList
    /\ fState.disciplines = {}
    /\ fState.circuits = { "IMD" }
    /\ fState.ageGroups = { "U14" }
    /\ << "age", "U14" >> \in buildChips(allEvents)
    /\ << "discipline", "GS" >> \in buildChips(allEvents)

\* the chip is none that _buildChips can create for the database: its kind is not
\* one of the five, or its value occurs in no event
Unrecognized(chip, events) ==
    \/ chip[1] \notin { "discipline", "circuit", "age", "pcss", "past" }
    \/ /\ chip[1] = "discipline"
       /\ \A e \in Range(events) : chip[2] \notin Range(FieldOr(e, "disciplines", << >>))
    \/ /\ chip[1] = "circuit"
       /\ \A e \in Range(events) : ~("circuit" \in DOMAIN e /\ e.circuit = chip[2])
    \/ /\ chip[1] = "age"
       /\ \A e \in Range(events) : chip[2] \notin Range(FieldOr(e, "age_groups", << >>))

\* C9 as claimed, on a database that holds events: toggling an unrecognized chip
\* leaves the filter state and the result of Filters.filter unchanged.
C9_UnrecognizedIsNoOp ==
    [][ \A chip \in ChipInputs :
            (ToggleChip(chip[1], chip[2]) /\ Unrecognized(chip, allEvents)
             /\ allEvents # << >>)
            => (fState' = fState /\ dom'.filtered = dom.filtered) ]_vars

\* the set of the chip's kind in a filter state
SetOfKind(state, kind) ==
    IF kind = "discipline" THEN state.disciplines
    ELSE IF kind = "circuit" THEN state.circuits
    ELSE state.ageGroups

\* C9 amended. Toggling a chip of a kind other than discipline, circuit, age,
\* pcss and past leaves the filter state and the result of Filters.filter
\* unchanged; toggling a discipline, circuit or age chip whose value occurs in no
\* event is no no-op: it flips the membership of the value like any other toggle,
\* and while the value is selected alone in its set Filters.filter returns no event.
C9_UnknownKindIsNoOp ==
    [][ \A chip \in ChipInputs :
            (ToggleChip(chip[1], chip[2]) /\ Unrecognized(chip, allEvents))
            => IF chip[1] \in { "discipline", "circuit", "age" }
               THEN /\ Flipped(SetOfKind(fState, chip[1]), SetOfKind(fState', chip[1]),
                               chip[2])
                    /\ fState' # fState
                    /\ SetOfKind(fState', chip[1]) = { chip[2] } => dom'.filtered = << >>
               ELSE /\ fState' = fState
                    /\ dom'.filtered = dom.filtered ]_vars

\* GS, which no event of the database has, was toggled on and hides every event
C9_Witness ==
    /\ phase = "ready"
    /\ urlParams = NoParams
    /\ allEvents = << eventB, eventC >>
    /\ fState = [ defaultFilterState EXCEPT !.disciplines = { "GS" } ]
    /\ dom.filtered = << >>

\* C10. clearAll leaves disciplines, circuits and ageGroups empty and pcssOnly and
\* hidePast false, whatever the filter state before, and the render that follows
\* shows the whole event array.
C10_ClearAllShowsAll ==
    [][ ClearAll =>
            /\ fState'.disciplines = {} /\ fState'.circuits = {} /\ fState'.ageGroups = {}
            /\ ~fState'.pcssOnly /\ ~fState'.hidePast
            /\ dom'.filtered = allEvents
            /\ dom'.eventCount = Len(allEvents) ]_vars

\* the page opened with URL presets, cleared, showing both events of which the
\* presets hid one
C10_Witness ==
    /\ phase = "ready"
    /\ urlParams = PresetList
    /\ fState = defaultFilterState
    /\ allEvents = << eventA, eventB >>
    /\ dom.filtered = allEvents

\* C11. Filter idempotence: Filters.filter applied to the events a render shows,
\* which are Filters.filter(App._allEvents), returns these events again.
C11_FilterIdempotence ==
    phase = "ready" => filtersFilter(fState, dom.filtered) = dom.filtered

\* hidePast alone dropped the completed event and kept the other
C11_Witness ==
    /\ phase = "ready"
    /\ fState = [ defaultFilterState EXCEPT !.hidePast = TRUE ]
    /\ allEvents = << eventA, eventB >>
    /\ dom.filtered = << eventA >>

\* C12. Filter operations are order-independent: from the filter state reached,
\* any two chip toggles lead to the same filter state, and the same result of
\* Filters.filter, in either order.
C12_ToggleOrderIndependence ==
    phase = "ready" =>
        \A c1, c2 \in ChipInputs :
            LET s12 == toggleChip(toggleChip(fState, c1[1], c1[2]), c2[1], c2[2])
                s21 == toggleChip(toggleChip(fState, c2[1], c2[2]), c1[1], c1[2])
            IN  /\ s12 = s21
                /\ filtersFilter(s12, allEvents) = filtersFilter(s21, allEvents)

\* three toggles on the page without presets: two disciplines and an age group
C12_Witness ==
    /\ phase = "ready"
    /\ urlParams = NoParams
    /\ fState = [ defaultFilterState EXCEPT !.disciplines = { "SL", "GS" },
                                            !.ageGroups = { "U14" } ]
    /\ allEvents = << eventA, eventB >>
    /\ dom.filtered = << eventA >>

(***************************************************************************)
(* The day grid: what the claims about _buildDayGrid read.                 *)
(***************************************************************************)
\* the day grid of the displayed month
Grid == buildDayGrid(cmYear, cmMonth)

\* positions of the grid that hold days of the displayed month
InMonth(days) == { i \in DOMAIN days : ~days[i].outside }

Max(S) == CHOOSE x \in S : \A y \in S : x >= y

\* C13. Grid size: the day grid of the displayed month has rows * 7 days, where
\* rows is the least number with rows * 7 >= firstDayOfWeek + daysInMonth and is
\* 4, 5 or 6; the month view has that many rows, each of exactly 7 days; fewer
\* than 7 fill days lead and fewer than 7 fill days trail.
C13_GridSize ==
    phase = "ready" =>
        LET days  == Grid
            weeks == groupWeeks(days)
            cells == firstDayOfWeek(cmYear, cmMonth) + daysInMonth(cmYear, cmMonth)
            rows  == Len(days) \div 7
            inM   == InMonth(days)
        IN  /\ Len(days) = rows * 7
            /\ rows * 7 >= cells /\ (rows - 1) * 7 < cells
            /\ rows \in { 4, 5, 6 }
            /\ Len(weeks) = rows /\ Len(dom.weekRows) = rows
            /\ \A w \in DOMAIN weeks : Len(weeks[w]) = 7
            /\ inM # {}
            /\ Min(inM) - 1 < 7
            /\ Len(days) - Max(inM) < 7

\* a month of six rows, with six fill days in front, reached by prev or next
C13_Witness ==
    /\ phase = "ready"
    /\ cmMonth # today.month
    /\ Len(dom.weekRows) = 6
    /\ firstDayOfWeek(cmYear, cmMonth) = 6

\* the month before and the month after a 0-based month of a year
PrevOf(year, month) == IF month = 0 THEN << year - 1, 11 >> ELSE << year, month - 1 >>
NextOf(year, month) == IF month = 11 THEN << year + 1, 0 >> ELSE << year, month + 1 >>

\* C14. Grid completeness: the day grid is a run of consecutive calendar dates,
\* aligned to the week (position i falls on weekday (i - 1) mod 7); days 1 to
\* daysInMonth of the displayed month appear once each, in order, with outside
\* false; the days before them belong to the previous month and the days after
\* them are days 1, 2, ... of the next month, all with outside true, the year
\* being the year before for a January grid and the year after for a December grid.
C14_GridCompleteness ==
    phase = "ready" =>
        LET days  == Grid
            dim   == daysInMonth(cmYear, cmMonth)
            inM   == InMonth(days)
            first == Min(inM)
            last  == Max(inM)
            prev  == PrevOf(cmYear, cmMonth)
            next  == NextOf(cmYear, cmMonth)
        IN  /\ \A i \in 1..(Len(days) - 1) : DayOrd(days[i + 1]) = DayOrd(days[i]) + 1
            /\ \A i \in DOMAIN days :
                /\ GetDay(days[i].year, days[i].month, days[i].day) = (i - 1) % 7
                /\ days[i].day \in 1..daysInMonth(days[i].year, days[i].month)
            /\ inM = first..last /\ last - first + 1 = dim
            /\ \A i \in inM :
                /\ days[i].year = cmYear /\ days[i].month = cmMonth
                /\ days[i].day = i - first + 1
            /\ \A i \in 1..(first - 1) :
                /\ days[i].outside
                /\ << days[i].year, days[i].month >> = prev
                /\ days[i].day = daysInMonth(prev[1], prev[2]) - (first - 1 - i)
            /\ \A i \in (last + 1)..Len(days) :
                /\ days[i].outside
                /\ << days[i].year, days[i].month >> = next
                /\ days[i].day = i - last

\* January of the next year, reached by next from December, with fill days of
\* December in front and of February behind
C14_Witness ==
    /\ phase = "ready"
    /\ today.month = 11
    /\ cmMonth = 0 /\ cmYear = today.year + 1
    /\ firstDayOfWeek(cmYear, cmMonth) > 0
    /\ Len(Grid) > firstDayOfWeek(cmYear, cmMonth) + 31

\* the array with its elements in the order p, a permutation of its positions
Reordered(events, p) == [ i \in DOMAIN events |-> events[p[i]] ]

\* C15. Layout determinism across input order: in every week row of the month
\* view, every ordering of the rendered event array gives every event the lane it
\* has in the row, events that start on the same column included.
C15_LaneOrderIndependence ==
    phase = "ready" =>
        LET weeks == Weeks
        IN  \A w \in RowIds : \A p \in Permutations(DOMAIN dom.filtered) :
                LET row == buildWeekRow(weeks[w], Reordered(dom.filtered, p))
                IN  \A i \in DOMAIN row.segments : \A j \in DOMAIN Segs(w) :
                        row.segments[i].event = Segs(w)[j].event
                            => row.segments[i].lane = Segs(w)[j].lane

(***************************************************************************)
(* RacerSearch, the fetches and the URL.                                   *)
(***************************************************************************)
\* C16. Racer selection narrows the rendered events: while a racer is selected
\* the events the last render shows are exactly the events of App._allEvents that
\* pass the chip filters and whose id is among the racer's event_ids, and a step
\* that changes the selection leaves the chip filter state unchanged.
C16_RacerNarrowsEvents ==
    [][ /\ racer'.selected # racer.selected => fState' = fState
        /\ racer'.selected # << >> =>
            Range(dom'.filtered) =
                { e \in Range(allEvents') :
                    Keeps(fState', e) /\ e.id \in getSelectedEventIds(racer')[1] } ]_vars

\* C17. Duplicate racer-data fetches are suppressed: at most one fetch of the
\* racer database is in flight after every step, and no step taken while the
\* database is loaded starts a fetch.
C17_OneFetchInFlight ==
    [][ /\ Len(fetches') <= 1
        /\ racer.loaded => Len(fetches') <= Len(fetches) ]_vars

\* C18. Event-data fetch failure is terminal: a step from the loading page that
\* does not load the events shows the failed-to-load message and leaves the app
\* content hidden, the filters not initialised, nothing rendered and no further
\* fetch issued; from then on the page stays like that.
C18_FetchFailureTerminal ==
    [][ /\ (phase = "loading" /\ phase' # "ready") =>
            /\ phase' = "failed"
            /\ page'.failedShown /\ page'.appHidden
            /\ dataFetches' = dataFetches
            /\ fState' = defaultFilterState /\ allEvents' = << >>
            /\ cmYear' = 0 /\ cmMonth' = 0
            /\ dom' = DomBlank
        /\ phase = "failed" =>
            /\ phase' = "failed"
            /\ page'.failedShown /\ page'.appHidden
            /\ dataFetches' = dataFetches
            /\ fState' = fState /\ dom' = dom ]_vars

\* the page opened with filter presets whose fetch failed: message shown, app
\* hidden, presets not applied
C18_Witness ==
    /\ phase = "failed"
    /\ urlParams = PresetList
    /\ page.failedShown /\ page.appHidden
    /\ fState = defaultFilterState
    /\ dom = DomBlank

\* C19. Embed mode defaults to upcoming-only: when App.init completes on a page
\* opened with embed=true and without past, hidePast is true and the first render
\* shows no completed event.
C19_EmbedHidesPast ==
    [][ (phase = "loading" /\ phase' = "ready" /\ urlParams.embed /\ ~urlParams.past)
            => /\ fState'.hidePast
               /\ \A e \in Range(dom'.filtered) : e.status # "completed" ]_vars

\* the query parameters say what the filter state and the racer selection are
UrlMatches(loc, state, r) ==
    /\ { toUpperCase(loc.discipline[i]) : i \in DOMAIN loc.discipline } = state.disciplines
    /\ Range(loc.circuit) = state.circuits
    /\ { toUpperCase(loc.age[i]) : i \in DOMAIN loc.age } = state.ageGroups
    /\ loc.pcss = state.pcssOnly
    /\ loc.racer = (IF r.selected = << >> THEN "" ELSE r.selected[1].key)

\* C20. URL round-trip: after every step that changes the chip filter state or
\* the racer selection the query parameters of the URL say the current filter
\* state and racer selection, and the history has not grown.
C20_UrlRoundTrip ==
    [][ (phase = "ready" /\ (fState' # fState \/ racer'.selected # racer.selected))
            => /\ UrlMatches(location', fState', racer')
               /\ historyLen' = historyLen ]_vars

(***************************************************************************)
(* Calendar export.                                                        *)
(***************************************************************************)
\* the date a string of eight digits YYYYMMDD writes, as [year, month (0-based), day]
DateOfDigits(s) ==
    [ year |-> StringToNum(SubSeq(s, 1, 4)), month |-> StringToNum(SubSeq(s, 5, 6)) - 1,
      day |-> StringToNum(SubSeq(s, 7, 8)) ]

\* d is a day of the calendar
IsCalendarDate(d) == d.month \in 0..11 /\ d.day \in 1..daysInMonth(d.year, d.month)

\* the digits write the date of the ISO string
WritesDate(digits, iso) == Len(digits) = 8 /\ DateOfDigits(digits) = parseISO(iso)

\* the digits write the calendar day after the date of the ISO string
WritesDayAfter(digits, iso) ==
    /\ Len(digits) = 8
    /\ IsCalendarDate(DateOfDigits(digits))
    /\ LET d == DateOfDigits(digits)
           e == parseISO(iso)
       IN  DayNumber(d.year, d.month, d.day) = DayNumber(e.year, e.month, e.day) + 1

\* C21: the Google Calendar link of the event the modal shows and the calendar
\* object last downloaded both start on event.dates.start and end on the calendar
\* day after event.dates.end, and the calendar object holds exactly one alarm,
\* triggered one day before the start.
C21_ExportEndDate ==
    /\ modal.googleUrl # << >> =>
         LET e == modal.current[1]
             g == modal.googleUrl[1].dates
         IN  /\ Len(g) = 17 /\ g[9] = CharSlash
             /\ WritesDate(SubSeq(g, 1, 8), e.dates.start)
             /\ WritesDayAfter(SubSeq(g, 10, 17), e.dates.end)
    /\ modal.download # << >> =>
         LET ics == modal.download[1]
             of  == { i \in DOMAIN allEvents : allEvents[i].id \o "@sim.sports" = ics.uid }
         IN  /\ of # {}
             /\ \A i \in of : /\ WritesDate(ics.dtstart, allEvents[i].dates.start)
                              /\ WritesDayAfter(ics.dtend, allEvents[i].dates.end)
             /\ Len(ics.alarms) = 1
             /\ ics.alarms[1].trigger = "-P1D"

\* an event that ends on 29 February 2024 was downloaded, with DTEND 20240301
C21_Witness ==
    /\ modal.download # << >>
    /\ modal.current # << >>
    /\ modal.current[1].dates.end = IsoDate(2024, 2, 29)
    /\ modal.download[1].dtend = replaceDashes(IsoDate(2024, 3, 1))
    /\ modal.googleUrl[1].dates = replaceDashes(modal.current[1].dates.start)
                                    \o << CharSlash >> \o replaceDashes(IsoDate(2024, 3, 1))

(***************************************************************************)
(* RacerSearch: the input handler and the lazy load.                       *)
(***************************************************************************)
\* C22: an input event (the input handler, or the focus handler when it calls
\* _onInput) whose trimmed query has fewer than 2 characters starts no fetch of the
\* racer database and leaves the dropdown hidden, whatever the state of RacerSearch.
C22_MinQueryLength ==
    [][ /\ \A text \in TypedTexts :
             (Len(queryOf(text)) < 2 /\ RacerInput(text)) =>
                 (fetches' = fetches /\ racer'.dropdown = "hidden")
        /\ (Len(queryOf(racer.inputValue)) < 2 /\ RacerFocus) =>
                 (fetches' = fetches /\ racer'.dropdown = "hidden") ]_vars

\* the database is loaded, the box holds one character and a blank, and nothing shows
C22_Witness ==
    /\ phase = "ready" /\ racer.wired
    /\ racer.loaded
    /\ racer.inputValue = "j "
    /\ racer.dropdown = "hidden"

(***************************************************************************)
(* Malformed event records.                                                *)
(***************************************************************************)
\* the fields among disciplines, age_groups and circuit that the record lacks
Lacks(e) == { f \in { "disciplines", "age_groups", "circuit" } : f \notin DOMAIN e }

\* the filter set that is matched against the field
SetFor(state, f) ==
    CASE f = "disciplines" -> state.disciplines
      [] f = "age_groups"  -> state.ageGroups
      [] f = "circuit"     -> state.circuits

WellFormed(e) == Lacks(e) = {}

\* C23: Filters.filter on a list with events that lack disciplines, age_groups or
\* circuit: such an event is dropped whenever the filter set of a field it lacks is
\* non-empty, is otherwise decided by the remaining predicates alone, and the
\* events with all fields are decided as if the others were not in the list.
C23_MalformedRecords ==
    phase = "ready" =>
        /\ \A e \in Range(allEvents) : ~WellFormed(e) =>
             /\ (\E f \in Lacks(e) : SetFor(fState, f) # {}) => e \notin Range(dom.filtered)
             /\ (\A f \in Lacks(e) : SetFor(fState, f) = {}) =>
                    (e \in Range(dom.filtered) <=>
                        /\ ~(fState.hidePast /\ e.status = "completed")
                        /\ ~(fState.pcssOnly /\ ~FieldOr(e, "pcss_confirmed", FALSE))
                        /\ \A f \in { "disciplines", "age_groups" } \ Lacks(e) :
                             SetFor(fState, f) = {} \/ Range(e[f]) \cap SetFor(fState, f) # {}
                        /\ "circuit" \notin Lacks(e) =>
                             (fState.circuits = {} \/ e.circuit \in fState.circuits))
        /\ SelectSeq(dom.filtered, WellFormed)
             = filtersFilter(fState, SelectSeq(allEvents, WellFormed))

\* a record without the optional fields ahead of a complete one, a circuit selected:
\* the first is dropped, the second kept
C23_Witness ==
    /\ phase = "ready"
    /\ allEvents = << eventC, eventA >>
    /\ fState.circuits = { "IMD" }
    /\ fState.disciplines = {} /\ fState.ageGroups = {} /\ ~fState.pcssOnly
    /\ dom.filtered = << eventA >>

(***************************************************************************)
(* Lane allocation: order, first fit, lane count, density.                 *)
(***************************************************************************)
\* the two segments intersect: not (a.endCol <= b.startCol or a.startCol >= b.endCol)
Meets(a, b) == ~(a.endCol <= b.startCol \/ a.startCol >= b.endCol)

\* the lanes in which a segment placed before the i-th meets the i-th
Blocked(segs, i) == { segs[j].lane : j \in { k \in 1..(i - 1) : Meets(segs[i], segs[k]) } }

\* the lanes opened before the i-th segment is placed
Opened(segs, i) == { segs[j].lane : j \in 1..(i - 1) }

\* C24: the banners of a week row come in ascending startCol, longer span first
\* among equal startCol; each segment has the lowest lane index in which no segment
\* placed before it meets it, and a lane with index = number of lanes so far is
\* opened only when every lane so far holds a segment that meets it.
C24_GreedyFirstFit ==
    \A w \in RowIds :
        LET segs == Segs(w)
        IN  /\ \A i, j \in DOMAIN segs : i < j =>
                  \/ segs[i].startCol < segs[j].startCol
                  \/ /\ segs[i].startCol = segs[j].startCol
                     /\ segs[i].endCol - segs[i].startCol >= segs[j].endCol - segs[j].startCol
            /\ \A i \in DOMAIN segs :
                  LET blocked == Blocked(segs, i)
                      opened  == Opened(segs, i)
                  IN  /\ segs[i].lane \in 0..Cardinality(opened)
                      /\ segs[i].lane \notin blocked
                      /\ \A l \in 0..(segs[i].lane - 1) : l \in blocked
                      /\ opened = 0..(Cardinality(opened) - 1)

\* a row of three banners: the first two start in the same column and the longer
\* one, which comes later in the database, is placed first; the second opens lane 1;
\* the third meets the first only and goes to lane 1
C24_Witness ==
    \E w \in RowIds :
        LET segs == Segs(w)
        IN  /\ Len(segs) = 3
            /\ segs[1].startCol = segs[2].startCol
            /\ segs[1].endCol > segs[2].endCol
            /\ \E a, b \in DOMAIN allEvents :
                  a < b /\ allEvents[a] = segs[2].event /\ allEvents[b] = segs[1].event
            /\ << segs[1].lane, segs[2].lane, segs[3].lane >> = << 0, 1, 1 >>
            /\ Meets(segs[3], segs[1]) /\ ~Meets(segs[3], segs[2])

\* the number of segments of the row that cover column c
Coverage(segs, c) == Cardinality({ i \in DOMAIN segs : segs[i].startCol <= c /\ c < segs[i].endCol })

\* the largest number of the set
Largest(S) == CHOOSE x \in S : \A y \in S : y <= x

\* C25: the number of lanes of a week row is the largest number of segments that
\* cover one of its 7 columns; two events that both span the whole week get the
\* lanes 0 and 1.
C25_LaneCountOptimal ==
    \A w \in RowIds :
        LET segs == Segs(w)
        IN  /\ dom.weekRows[w].laneCount = Largest({ Coverage(segs, c) : c \in 1..7 })
            /\ (Len(segs) = 2 /\ \A i \in 1..2 : segs[i].startCol = 1 /\ segs[i].endCol = 8)
                  => << segs[1].lane, segs[2].lane >> = << 0, 1 >>

\* scenario B in one row, and in another row three banners in two lanes
C25_Witness ==
    /\ \E w \in RowIds :
          /\ Len(Segs(w)) = 2
          /\ \A i \in 1..2 : Segs(w)[i].startCol = 1 /\ Segs(w)[i].endCol = 8
          /\ dom.weekRows[w].laneCount = 2
    /\ \E w \in RowIds : Len(Segs(w)) = 3 /\ dom.weekRows[w].laneCount = 2

\* C27: the lane indices of a week row are exactly 0 .. L-1 for L the number of
\* lanes of the row; L = 0 exactly when the row has no segment, which is exactly
\* when no rendered event has a day in the week.
C27_LanesDense ==
    phase = "ready" =>
        LET weeks == Weeks
        IN  \A w \in RowIds :
                LET segs == Segs(w)
                    L    == dom.weekRows[w].laneCount
                IN  /\ { segs[i].lane : i \in DOMAIN segs } = 0..(L - 1)
                    /\ L = 0 <=> segs = << >>
                    /\ segs = << >> <=>
                         ~\E e \in Range(dom.filtered) : Intersects(e, weeks[w])

\* a month with a row of three lanes and a row without any event
C27_Witness ==
    /\ phase = "ready"
    /\ \E w \in RowIds : dom.weekRows[w].laneCount = 3 /\ Len(Segs(w)) = 3
    /\ \E w \in RowIds : dom.weekRows[w].laneCount = 0 /\ Segs(w) = << >>

(***************************************************************************)
(* Re-rendering, navigation and the visible panel.                         *)
(***************************************************************************)
\* C26: once a handler (chip toggle, clearAll, prev/next/today, view switch) has
\* returned, the document is what App.render writes from the current state: the
\* rendered events and the event count are Filters.filter(App._allEvents) under the
\* current filter state, laid out for the current (year, month) and view.
C26_RenderAfterEveryHandler ==
    phase = "ready" =>
        LET filtered == filtersFilter(fState, allEvents)
        IN  /\ dom.filtered = filtered
            /\ dom.eventCount = Len(filtered)
            /\ dom.monthTitle = << cmMonth, cmYear >>
            /\ dom = appRender(allEvents, fState, currentView, cmYear, cmMonth)

\* filters changed, the month moved to February 2026, the list view chosen: the
\* document shows the one event that passes
C26_Witness ==
    /\ phase = "ready"
    /\ urlParams = NoParams
    /\ fState.disciplines = { "GS" }
    /\ cmYear = 2026 /\ cmMonth = 1
    /\ currentView = "list"
    /\ Len(allEvents) = 2
    /\ dom.filtered = << eventA >>
    /\ dom.eventCount = 1
    /\ ~dom.listHidden

\* months since year 0 of the displayed month
MonthIndex(year, month) == year * 12 + month

\* C28: CalendarMonth._month stays in 0..11; a click on next shows the calendar
\* month right after the displayed one (December -> January of the next year), a
\* click on prev the month right before (January -> December of the year before),
\* and next then prev, or prev then next, gives the displayed (year, month) back.
C28_NavigationKeepsValidMonth ==
    [][ /\ cmMonth' \in 0..11
        /\ Navigate(1) =>
             /\ MonthIndex(cmYear', cmMonth') = MonthIndex(cmYear, cmMonth) + 1
             /\ cmMonth = 11 => (cmMonth' = 0 /\ cmYear' = cmYear + 1)
        /\ Navigate(-1) =>
             /\ MonthIndex(cmYear', cmMonth') = MonthIndex(cmYear, cmMonth) - 1
             /\ cmMonth = 0 => (cmMonth' = 11 /\ cmYear' = cmYear - 1)
        /\ phase = "ready" =>
             LET here == [ year |-> cmYear, month |-> cmMonth ]
                 fwd  == navigate(cmYear, cmMonth, 1)
                 back == navigate(cmYear, cmMonth, -1)
             IN  /\ navigate(fwd.year, fwd.month, -1) = here
                 /\ navigate(back.year, back.month, 1) = here ]_vars

\* the page was opened in December and next was clicked: January of the next year
C28_Witness ==
    /\ phase = "ready"
    /\ today.month = 11
    /\ cmMonth = 0
    /\ cmYear = today.year + 1
    /\ dom.monthTitle = << 0, today.year + 1 >>

\* the panels of the page that are visible
VisiblePanels(d) ==
    { p \in { "empty", "month", "list" } :
        \/ p = "empty" /\ ~d.emptyHidden
        \/ p = "month" /\ ~d.monthHidden
        \/ p = "list" /\ ~d.listHidden }

\* C29: after every App.render exactly one of the empty state, the month view and
\* the list view is visible: the empty state if and only if no event passes the
\* filters, otherwise the panel that App._currentView names; and App._currentView
\* changes only in App.switchView (which App.init calls for the view of the URL).
C29_ViewVisibilityExclusive ==
    [][ /\ phase' = "ready" =>
             /\ Cardinality(VisiblePanels(dom')) = 1
             /\ "empty" \in VisiblePanels(dom') <=> dom'.filtered = << >>
             /\ dom'.filtered # << >> => VisiblePanels(dom') = { currentView' }
        /\ currentView' # currentView =>
             \/ phase = "loading"
             \/ \E view \in { "month", "list" } : SwitchView(view) ]_vars

\* the keys of the racer database that include the query
KeysWith(query) ==
    { RacerData.racers[k].key : k \in { j \in DOMAIN RacerData.racers :
                                          includesChars(CharsOf(RacerData.racers[j].key), query) } }

\* the continuation of a keystroke's fetch ran: the dropdown shows the racers whose
\* key includes the query the keystroke captured
ShowsResultsFor(r, query) ==
    IF KeysWith(query) = {} THEN r.dropdown = "empty"
    ELSE r.dropdown = "results" /\ Range(r.items) = KeysWith(query)

\* C30: a fetch of the racer database that succeeds runs its continuation once,
\* which for a keystroke's fetch shows the results of the query that keystroke
\* captured; a fetch that fails runs no continuation and starts no fetch; after
\* either, _loading is false, and _loaded is true only with the fetched database in
\* _data (false after a failure, so that the next keystroke of 2 characters or more
\* starts a fetch); an input event that arrives while a fetch is in flight displays
\* no results.
C30_LazyLoadContinuation ==
    [][ /\ \A i \in DOMAIN fetches : RacerFetchDone(i) =>
             /\ ~racer'.loading /\ racer'.loaded /\ racer'.data = << RacerData >>
             /\ Len(fetches') = Len(fetches) - 1
             /\ fetches[i].kind = "input" => ShowsResultsFor(racer', fetches[i].query)
        /\ \A i \in DOMAIN fetches : RacerFetchFailed(i) =>
             /\ ~racer'.loading /\ ~racer'.loaded
             /\ Len(fetches') = Len(fetches) - 1
             /\ racer'.dropdown = racer.dropdown /\ racer'.items = racer.items
             /\ racer'.selected = racer.selected /\ dom' = dom
        /\ racer'.loaded => racer'.data = << RacerData >>
        /\ \A text \in TypedTexts : RacerInput(text) =>
             /\ (~racer.loaded /\ ~racer.loading /\ Len(queryOf(text)) >= 2)
                    => Len(fetches') = Len(fetches) + 1
             /\ fetches # << >> => racer'.dropdown = "hidden" ]_vars

====
